---------------------------- MODULE Spec2Model ----------------------------
(***************************************************************************)
(* Calibration solver and track renderer of routechoices                   *)
(* (js/generate_map.js, js/lib/mapdump.js, dashboard/map_edit.js).         *)
(*                                                                         *)
(* Numbers.  A JavaScript number is modelled as an exact rational n/d      *)
(* (d > 0, reduced), or NaN, or +Infinity / -Infinity.  The arithmetic is  *)
(* IEEE-754 arithmetic without rounding error: division by zero, NaN       *)
(* comparisons (always false) and infinities behave as in JavaScript.      *)
(*                                                                         *)
(* Coordinates.  Every geographic coordinate is carried by its image under *)
(* SpheroidProjection.LatLonToMeters (a bijection between lat/lon and      *)
(* Mercator metres), drawn from small integer sets, so that the matrix     *)
(* code of the calibration runs on integers exactly as written.            *)
(***************************************************************************)
EXTENDS Integers, Sequences, FiniteSets, TLC

VARIABLES
    pc,             \* position of the modelled entry point
    image,          \* [width, height] of the image passed to drawTrackOnMap
    bounds,         \* the bounds drawTrackOnMap extracted for that image
    corners,        \* cornersCoordinates: top_left, top_right, bottom_right, bottom_left
    track,          \* trackPoints: sequence of [time, x, y]
    includeHeader,  \* drawTrackOnMap argument
    includeTrack,   \* drawTrackOnMap argument
    canvas,         \* [width, height] of the canvas drawTrackOnMap returned
    passes,         \* number of recursive drawTrackOnMap calls made so far
    image0,         \* the image of the outermost drawTrackOnMap call
    speeds,         \* result of extractSpeed
    calTransform,   \* matrix3d of the closure cornerCalTransform returned
    backTransform,  \* matrix3d of the closure cornerBackTransform returned
    calibrationStringRaw,   \* value of #id_calibration_string_raw
    hasFile,                \* #id_image holds a file
    editForm,               \* #main-form has the class edit-form
    previewOpenerVisible,   \* #calibration_preview is shown
    viewerVisible,          \* #calibration-viewer is shown (and #main hidden)
    calibString,            \* map_edit.js: let calibString
    cornersLatLng,          \* map_edit.js: let cornersLatLng
    previewLoading,         \* the image of loadMapImagePreview is loading
    previewMapBounds,       \* bounds displayPreviewMap fitted, if it ran
    cliArg,                 \* generate_map.js: cornersCoordsRaw
    cliState,               \* position of the CLI's main function
    cliCornersCoords,       \* generate_map.js: cornersCoords
    stdout,                 \* what the CLI process has written to standard output
    calPts,                 \* computeCalibString: the three control points
    calPts0,                \* the control points as they were placed
    xyToLatLngMetersCoeffs, \* computeCalibString: result of deriveAffineTransform
    zoomPc,                 \* position of a call of zoomForPixelSize
    zoomPixelSize,          \* zoomForPixelSize: pixelSize
    zoomResult,             \* zoomForPixelSize: the value returned
    helperVisible,          \* #calibration-helper is shown (and #main hidden)
    helperOpenings,         \* how often the helper has been opened
    calibrationStep,        \* which of #calibration-step-1 / -2 is shown
    imageFile,              \* [width, height] of the image of the form
    rasterLoads,            \* image loads of loadMapImage still in flight
    rasterCalibMap,         \* rasterCalibMap is not null
    worldCalibMap,          \* worldCalibMap is not null
    rasterMapImage,         \* [width, height] of rasterMapImage, if set
    markersRaster,          \* pixel positions of the raster markers
    markersWorld,           \* positions of the world markers
    btnToPreview,           \* #to-calibration-step-2-button is the one shown
    threePointsHelper,      \* #three-points-helper is shown
    filePc,                 \* position of a call of extractCornersCoordsFromFilename
    fileParts,              \* the parts the file name was put together from
    fileName,               \* extractCornersCoordsFromFilename: filename
    fileResult,             \* extractCornersCoordsFromFilename: the value returned
    pdfLoading,             \* a PDF chosen as image is being rendered (onPDF)
    calibrationHelpVisible, \* #calibration_help is shown
    timePc,                 \* position of a call of printTime
    timeT,                  \* printTime: t, in milliseconds
    timeResult,             \* printTime: the text returned
    drawPc,                 \* position in the includeTrack branch of drawTrackOnMap
    speedRange,             \* drawTrackOnMap: minSpeed and maxSpeed, as mean and variance
    outlinePath,            \* the points given to ctx3.lineTo by drawOutline
    segments,               \* the segments stroked on ctx2 by drawColoredPath
    ticks,                  \* the direction ticks stroked on ctx3
    iconsRaster,            \* index in icons of the icon of each raster marker
    iconsWorld,             \* index in icons of the icon of each world marker
    tailLength,             \* value of #id_tail_length
    hourInput,              \* value of the input named hours
    minuteInput,            \* value of the input named minutes
    secondInput,            \* value of the input named seconds
    tailTyped,              \* the texts the last input event found in the three inputs
    tailEvents              \* input events handled so far

renderVars == <<image, bounds, includeHeader, includeTrack, canvas, passes, image0>>
calibVars == <<calTransform, backTransform>>

dashboardVars == <<calibrationStringRaw, hasFile, editForm, previewOpenerVisible,
                   viewerVisible, calibString, cornersLatLng, previewLoading,
                   previewMapBounds>>
cliVars == <<cliArg, cliState, cliCornersCoords, stdout>>

affineVars == <<calPts, calPts0, xyToLatLngMetersCoeffs>>
zoomVars == <<zoomPc, zoomPixelSize, zoomResult>>
helperVars == <<helperVisible, helperOpenings, calibrationStep, imageFile, rasterLoads,
                rasterCalibMap, worldCalibMap, rasterMapImage, markersRaster,
                markersWorld, btnToPreview, threePointsHelper>>
fileVars == <<filePc, fileParts, fileName, fileResult>>
imageVars == <<pdfLoading, calibrationHelpVisible>>
timeVars == <<timePc, timeT, timeResult>>
drawVars == <<drawPc, speedRange, outlinePath, segments, ticks>>
iconVars == <<iconsRaster, iconsWorld>>
tailVars == <<tailLength, hourInput, minuteInput, secondInput, tailTyped, tailEvents>>

\* the state of the operations that are specified on their own
extraVars == <<affineVars, zoomVars, helperVars, fileVars, imageVars, timeVars,
               drawVars, iconVars, tailVars>>

vars == <<pc, corners, track, speeds, renderVars, calibVars, dashboardVars, cliVars,
          extraVars>>

otherVars == <<pc, corners, track, speeds, renderVars, calibVars, dashboardVars, cliVars>>

\* what an operation specified on its own leaves alone
affineRest == <<otherVars, zoomVars, helperVars, fileVars, imageVars, timeVars,
                drawVars, iconVars, tailVars>>
zoomRest == <<otherVars, affineVars, helperVars, fileVars, imageVars, timeVars,
              drawVars, iconVars, tailVars>>
markerRest == <<pc, corners, track, speeds, renderVars, calibVars, cliVars,
                affineVars, zoomVars, fileVars, imageVars, timeVars, drawVars, tailVars>>
helperRest == <<markerRest, iconVars>>
fileRest == <<otherVars, affineVars, zoomVars, helperVars, imageVars, timeVars,
              drawVars, iconVars, tailVars>>
imageRest == <<pc, corners, track, speeds, renderVars, calibVars, cliVars,
               affineVars, zoomVars, fileVars, timeVars, drawVars, iconVars, tailVars>>
timeRest == <<otherVars, affineVars, zoomVars, helperVars, fileVars, imageVars,
              drawVars, iconVars, tailVars>>
tailRest == <<otherVars, affineVars, zoomVars, helperVars, fileVars, imageVars,
              timeVars, drawVars, iconVars>>
drawRest == <<calibVars, dashboardVars, cliVars, affineVars, zoomVars, helperVars,
              fileVars, imageVars, timeVars, iconVars, tailVars>>

-----------------------------------------------------------------------------
(* JavaScript numbers *)

Fin(n, d) == [k |-> "fin", n |-> n, d |-> d]
NaN == [k |-> "nan", n |-> 0, d |-> 1]
PInf == [k |-> "inf", n |-> 1, d |-> 1]
NInf == [k |-> "inf", n |-> -1, d |-> 1]
\* the value undefined: an index past the end of an array, the result of a
\* function that ends without a return statement
Undefined == [k |-> "undefined", n |-> 0, d |-> 1]
Num(i) == Fin(i, 1)

Abs(i) == IF i < 0 THEN -i ELSE i
Sign(i) == IF i < 0 THEN -1 ELSE IF i > 0 THEN 1 ELSE 0

RECURSIVE GCD(_, _)
GCD(a, b) == IF b = 0 THEN a ELSE GCD(b, a % b)

\* a / b for integers a, b.  The divisors of this program are never -0
\* (multmm starts every sum from +0), so x / 0 has the sign of x.
IntDiv(a, b) ==
    IF b = 0
    THEN (IF a = 0 THEN NaN ELSE IF a > 0 THEN PInf ELSE NInf)
    ELSE LET g == GCD(Abs(a), Abs(b))
         IN  Fin(Sign(b) * (a \div g), Abs(b) \div g)

\* Sums, products and inverses of finite numbers, computed over the least
\* common denominator so that the intermediate integers stay small.
RatAdd(x, y) ==
    LET g == GCD(x.d, y.d)
    IN  IntDiv(x.n * (y.d \div g) + y.n * (x.d \div g), (x.d \div g) * y.d)

RatNeg(x) == Fin(-x.n, x.d)

RatSub(x, y) == RatAdd(x, RatNeg(y))

RatMul(x, y) ==
    LET g1 == GCD(Abs(x.n), y.d)
        g2 == GCD(Abs(y.n), x.d)
    IN  IntDiv((x.n \div g1) * (y.n \div g2), (x.d \div g2) * (y.d \div g1))

\* 1 / x for x # 0
RatInv(x) == IntDiv(x.d, x.n)

IsNaN(x) == x.k = "nan"
IsFinite(x) == x.k = "fin"

\* x / y
NumDiv(x, y) ==
    IF IsNaN(x) \/ IsNaN(y) THEN NaN
    ELSE IF x.k = "inf" THEN
        (IF y.k = "inf" THEN NaN
         ELSE IF y.n < 0 THEN (IF x.n > 0 THEN NInf ELSE PInf) ELSE x)
    ELSE IF y.k = "inf" THEN Num(0)
    ELSE IF y.n = 0 THEN IntDiv(x.n, 0)
    ELSE RatMul(x, RatInv(y))

\* x * y
NumMul(x, y) ==
    IF IsNaN(x) \/ IsNaN(y) THEN NaN
    ELSE IF x.k = "inf" \/ y.k = "inf" THEN
        (IF Sign(x.n) * Sign(y.n) = 0 THEN NaN
         ELSE IF Sign(x.n) * Sign(y.n) > 0 THEN PInf ELSE NInf)
    ELSE RatMul(x, y)

\* x - y
NumSub(x, y) ==
    IF IsNaN(x) \/ IsNaN(y) THEN NaN
    ELSE IF x.k = "inf" THEN
        (IF y.k = "inf" /\ y.n = x.n THEN NaN ELSE x)
    ELSE IF y.k = "inf" THEN (IF y.n > 0 THEN NInf ELSE PInf)
    ELSE RatSub(x, y)

\* x < y (false when either is NaN)
NumLt(x, y) ==
    IF IsNaN(x) \/ IsNaN(y) THEN FALSE
    ELSE IF x.k = "inf" THEN x.n < 0 /\ ~(y.k = "inf" /\ y.n < 0)
    ELSE IF y.k = "inf" THEN y.n > 0
    ELSE LET fx == x.n \div x.d
             fy == y.n \div y.d
         IN  \/ fx < fy
             \/ fx = fy /\ (x.n % x.d) * y.d < (y.n % y.d) * x.d

NumGt(x, y) == NumLt(y, x)
NumLe(x, y) == ~IsNaN(x) /\ ~IsNaN(y) /\ ~NumLt(y, x)

\* Math.floor, Math.ceil, Math.max
Floor(x) == IF x.k = "fin" THEN Num(x.n \div x.d) ELSE x
Ceil(x) == IF x.k = "fin" THEN Num(-((-x.n) \div x.d)) ELSE x
NumMax(x, y) ==
    IF IsNaN(x) \/ IsNaN(y) THEN NaN ELSE IF NumLt(x, y) THEN y ELSE x

\* x + y
NumAdd(x, y) ==
    IF IsFinite(x) /\ IsFinite(y) THEN RatAdd(x, y) ELSE NumSub(x, NumSub(Num(0), y))

-----------------------------------------------------------------------------
(* generate_map.js: 3x3 matrices, row-major, m[1] .. m[9] for m[0] .. m[8] *)

\* adj with the sign of one cofactor wrong
adj_sign(m) ==
    << m[5] * m[9] - m[6] * m[8],
       m[3] * m[8] - m[2] * m[9],
       m[2] * m[6] - m[3] * m[5],
       m[6] * m[7] - m[4] * m[9],
       m[1] * m[9] + m[3] * m[7],
       m[3] * m[4] - m[1] * m[6],
       m[4] * m[8] - m[5] * m[7],
       m[2] * m[7] - m[1] * m[8],
       m[1] * m[5] - m[2] * m[4] >>

adj(m) ==
    << m[5] * m[9] - m[6] * m[8],
       m[3] * m[8] - m[2] * m[9],
       m[2] * m[6] - m[3] * m[5],
       m[6] * m[7] - m[4] * m[9],
       m[1] * m[9] - m[3] * m[7],
       m[3] * m[4] - m[1] * m[6],
       m[4] * m[8] - m[5] * m[7],
       m[2] * m[7] - m[1] * m[8],
       m[1] * m[5] - m[2] * m[4] >>

\* c[3i + j] = sum over k of a[3i + k] * b[3k + j]
multmm(a, b) ==
    << a[1] * b[1] + a[2] * b[4] + a[3] * b[7],
       a[1] * b[2] + a[2] * b[5] + a[3] * b[8],
       a[1] * b[3] + a[2] * b[6] + a[3] * b[9],
       a[4] * b[1] + a[5] * b[4] + a[6] * b[7],
       a[4] * b[2] + a[5] * b[5] + a[6] * b[8],
       a[4] * b[3] + a[5] * b[6] + a[6] * b[9],
       a[7] * b[1] + a[8] * b[4] + a[9] * b[7],
       a[7] * b[2] + a[8] * b[5] + a[9] * b[8],
       a[7] * b[3] + a[8] * b[6] + a[9] * b[9] >>

multmv(m, v) ==
    << m[1] * v[1] + m[2] * v[2] + m[3] * v[3],
       m[4] * v[1] + m[5] * v[2] + m[6] * v[3],
       m[7] * v[1] + m[8] * v[2] + m[9] * v[3] >>

basisToPoints(x1, y1, x2, y2, x3, y3, x4, y4) ==
    LET m == <<x1, x2, x3, y1, y2, y3, 1, 1, 1>>
        v == multmv(adj(m), <<x4, y4, 1>>)
    IN  multmm(m, <<v[1], 0, 0, 0, v[2], 0, 0, 0, v[3]>>)

general2DProjection(x1s, y1s, x1d, y1d, x2s, y2s, x2d, y2d, x3s, y3s, x3d, y3d, x4s, y4s, x4d, y4d) ==
    LET s == basisToPoints(x1s, y1s, x2s, y2s, x3s, y3s, x4s, y4s)
        d == basisToPoints(x1d, y1d, x2d, y2d, x3d, y3d, x4d, y4d)
    IN  multmm(d, adj(s))

\* project(m, x, y): a point [x, y] of two JavaScript numbers
project(m, x, y) ==
    LET v == multmv(m, <<x, y, 1>>)
    IN  [x |-> IntDiv(v[1], v[3]), y |-> IntDiv(v[2], v[3])]

\* The matrix3d captured by the closure cornerCalTransform returns.
cornerCalTransform(width, height, tl, tr, br, bl) ==
    general2DProjection(tl.x, tl.y, 0, 0,
                        tr.x, tr.y, width, 0,
                        br.x, br.y, width, height,
                        bl.x, bl.y, 0, height)

\* The closure of cornerCalTransform applied to a coordinate.
transform(matrix3d, latLon) == project(matrix3d, latLon.x, latLon.y)

\* project(m, x, y) for numbers x, y that need not be whole
projectNum(m, x, y) ==
    LET v == << NumAdd(NumAdd(NumMul(Num(m[1]), x), NumMul(Num(m[2]), y)), Num(m[3])),
                NumAdd(NumAdd(NumMul(Num(m[4]), x), NumMul(Num(m[5]), y)), Num(m[6])),
                NumAdd(NumAdd(NumMul(Num(m[7]), x), NumMul(Num(m[8]), y)), Num(m[9])) >>
    IN  [x |-> NumDiv(v[1], v[3]), y |-> NumDiv(v[2], v[3])]

\* The closure of cornerCalTransform applied to a coordinate that is not a
\* whole number of metres.
transformNum(matrix3d, latLon) == projectNum(matrix3d, latLon.x, latLon.y)

\* The closure of cornerBackTransform applied to a pixel.
backTransformAt(matrix3d, coords) == project(matrix3d, coords.x, coords.y)

\* The matrix3d captured by the closure cornerBackTransform returns.
cornerBackTransform(width, height, tl, tr, br, bl) ==
    general2DProjection(0, 0, tl.x, tl.y,
                        width, 0, tr.x, tr.y,
                        width, height, br.x, br.y,
                        0, height, bl.x, bl.y)

-----------------------------------------------------------------------------
(* mapdump.js: speed, bounds, downscale *)

\* LatLon.prototype.distance: the haversine length in metres, which is 0 for
\* equal coordinates and positive otherwise; carried here by the taxicab
\* length of the Mercator coordinates, which has the same zeros.
distance(from, to) == Abs(from.x - to.x) + Abs(from.y - to.y)

SpeedWindow == 10

Max2(a, b) == IF a > b THEN a ELSE b
Min2(a, b) == IF a < b THEN a ELSE b

\* lines 11-22: the summed distance of the consecutive pairs of a portion
RECURSIVE portionDistance(_, _)
portionDistance(portion, j) ==
    IF j > Len(portion) - 1 THEN 0
    ELSE distance(portion[j], portion[j + 1]) + portionDistance(portion, j + 1)

\* lines 8-10: trackPoints.slice(minIdx, maxIdx), 0-based and end-exclusive
slice(seq, from, to) == SubSeq(seq, from + 1, to)

\* speedAt taking the elapsed time up to point i instead of the window end
speedAt_elapsedToI(trackPoints, i, prevSpeed) ==
    LET minIdx == Max2(i - SpeedWindow, 0)
        maxIdx == Min2(minIdx + SpeedWindow, Len(trackPoints) - 1)
        dist == portionDistance(slice(trackPoints, minIdx, maxIdx), 1)
        elapsed == trackPoints[i + 1].time - trackPoints[minIdx + 1].time
        speed == NumMul(IntDiv(dist, elapsed), Num(3600))
    IN  IF IsNaN(speed) THEN prevSpeed ELSE speed

\* lines 8-27: the speed pushed for the 0-based index i
speedAt(trackPoints, i, prevSpeed) ==
    LET minIdx == Max2(i - SpeedWindow, 0)
        maxIdx == Min2(minIdx + SpeedWindow, Len(trackPoints) - 1)
        dist == portionDistance(slice(trackPoints, minIdx, maxIdx), 1)
        elapsed == trackPoints[maxIdx + 1].time - trackPoints[minIdx + 1].time
        speed == NumMul(IntDiv(dist, elapsed), Num(3600))
    IN  IF IsNaN(speed) THEN prevSpeed ELSE speed

RECURSIVE extractSpeedLoop(_, _, _, _)
extractSpeedLoop(trackPoints, i, prevSpeed, acc) ==
    IF i >= Len(trackPoints) THEN acc
    ELSE LET speed == speedAt(trackPoints, i, prevSpeed)
         IN  extractSpeedLoop(trackPoints, i + 1, speed, Append(acc, speed))

extractSpeed(trackPoints) == extractSpeedLoop(trackPoints, 0, Num(1), <<>>)

\* lines 64-72: the running minimum / maximum over the projected points
RECURSIVE boundsLoop(_, _, _, _)
boundsLoop(matrix3d, trackPoints, i, b) ==
    IF i > Len(trackPoints) THEN b
    ELSE LET pt == transform(matrix3d, trackPoints[i])
         IN  boundsLoop(matrix3d, trackPoints, i + 1,
                 [minX |-> IF NumLt(pt.x, b.minX) THEN pt.x ELSE b.minX,
                  maxX |-> IF NumGt(pt.x, b.maxX) THEN pt.x ELSE b.maxX,
                  minY |-> IF NumLt(pt.y, b.minY) THEN pt.y ELSE b.minY,
                  maxY |-> IF NumGt(pt.y, b.maxY) THEN pt.y ELSE b.maxY])

extractBounds(img, cornersCoordinates, trackPoints) ==
    LET matrix3d == cornerCalTransform(img.width, img.height,
                        cornersCoordinates.top_left, cornersCoordinates.top_right,
                        cornersCoordinates.bottom_right, cornersCoordinates.bottom_left)
        b == boundsLoop(matrix3d, trackPoints, 1,
                 [minX |-> Num(0), maxX |-> Num(img.width),
                  minY |-> Num(0), maxY |-> Num(img.height)])
    IN  [minX |-> Floor(b.minX), maxX |-> Ceil(b.maxX),
         minY |-> Floor(b.minY), maxY |-> Ceil(b.maxY)]

\* scaleImage rounding the scaled size up instead of down
scaleImage_ceil(img, ratio) ==
    [width |-> Ceil(NumMul(Num(img.width), ratio)).n,
     height |-> Ceil(NumMul(Num(img.height), ratio)).n]

\* scaleImage: the size of the canvas it returns
scaleImage(img, ratio) ==
    [width |-> Floor(NumMul(Num(img.width), ratio)).n,
     height |-> Floor(NumMul(Num(img.height), ratio)).n]

MAX == 32767
headerHeight == 70

\* lines 107-108 for the pass on the current image
mWidth == NumSub(bounds.maxX, bounds.minX)
mHeight == NumSub(bounds.maxY, bounds.minY)
\* line 111
tooBig == NumGt(mHeight, Num(MAX)) \/ NumGt(mWidth, Num(MAX))

-----------------------------------------------------------------------------
(* Inputs of the render *)

MaxImg == 4         \* images are 1..MaxImg pixels wide and high
MaxTrackLen == 2    \* rendered tracks have 0..MaxTrackLen points

Pt(x, y) == [x |-> x, y |-> y]
Quad(tl, tr, br, bl) ==
    [top_left |-> tl, top_right |-> tr, bottom_right |-> br, bottom_left |-> bl]

\* Calibrations: a square, a sheared parallelogram, a general quadrilateral
\* (a true perspective), a flat rectangle, and two singular ones (collinear,
\* coincident corners).
CornerSets ==
    { Quad(Pt(0, 0), Pt(2, 0), Pt(2, -2), Pt(0, -2)),
      Quad(Pt(0, 0), Pt(2, 0), Pt(3, -2), Pt(1, -2)),
      Quad(Pt(0, 0), Pt(2, 0), Pt(2, -2), Pt(1, -2)),
      Quad(Pt(0, 0), Pt(3, 0), Pt(3, -1), Pt(0, -1)),
      Quad(Pt(0, 0), Pt(1, 0), Pt(2, 0), Pt(3, 0)),
      Quad(Pt(0, 0), Pt(0, 0), Pt(2, -2), Pt(2, -2)) }

\* Track coordinates: inside the map, just outside it, far outside it, and
\* on the line y = -4, which the general quadrilateral sends to infinity.
TrackCoords ==
    { Pt(1, -1), Pt(-2, 0), Pt(49148, 0), Pt(0, -65532), Pt(0, -4) }

SeqsUpTo(S, n) == UNION {[1..k -> S] : k \in 0..n}

\* The CLI's track: one fix every 10 s (generate_map.js lines 43-48).
TrackOf(coords) ==
    [i \in 1..Len(coords) |->
        [time |-> (i - 1) * 10000, x |-> coords[i].x, y |-> coords[i].y]]

Images == [width : 1..MaxImg, height : 1..MaxImg]

NoCanvas == [width |-> -1, height |-> -1]

NoMatrix == <<>>

RenderIdle ==
    /\ image = [width |-> 0, height |-> 0]
    /\ image0 = image
    /\ bounds = [minX |-> Num(0), maxX |-> Num(0), minY |-> Num(0), maxY |-> Num(0)]
    /\ includeHeader = FALSE
    /\ includeTrack = FALSE
    /\ canvas = NoCanvas
    /\ passes = 0

CalibIdle ==
    /\ calTransform = NoMatrix
    /\ backTransform = NoMatrix

NoString == <<>>

\* null, told apart from every string: no character is "null"
Null == <<"null">>

\* no value yet
None == <<>>

DashboardIdle ==
    /\ calibrationStringRaw = NoString
    /\ hasFile = FALSE
    /\ editForm = FALSE
    /\ previewOpenerVisible = FALSE
    /\ viewerVisible = FALSE
    /\ calibString = Null
    /\ cornersLatLng = <<>>
    /\ previewLoading = FALSE
    /\ previewMapBounds = None

CliIdle ==
    /\ cliArg = NoString
    /\ cliState = "idle"
    /\ cliCornersCoords = None
    /\ stdout = <<>>

AffineIdle ==
    /\ calPts = <<>>
    /\ calPts0 = <<>>
    /\ xyToLatLngMetersCoeffs = <<>>

ZoomIdle ==
    /\ zoomPc = "idle"
    /\ zoomPixelSize = NaN
    /\ zoomResult = Undefined

\* rasterMapImage while it is null
NoImage == [width |-> -1, height |-> -1]

HelperIdle ==
    /\ helperVisible = FALSE
    /\ helperOpenings = 0
    /\ calibrationStep = 1
    /\ imageFile = NoImage
    /\ rasterLoads = 0
    /\ rasterCalibMap = FALSE
    /\ worldCalibMap = FALSE
    /\ rasterMapImage = NoImage
    /\ markersRaster = <<>>
    /\ markersWorld = <<>>
    /\ btnToPreview = FALSE
    /\ threePointsHelper = FALSE

\* the value false
False == <<"false">>

FileIdle ==
    /\ filePc = "idle"
    /\ fileParts = <<>>
    /\ fileName = <<>>
    /\ fileResult = False

ImageIdle ==
    /\ pdfLoading = FALSE
    /\ calibrationHelpVisible = FALSE

TimeIdle ==
    /\ timePc = "idle"
    /\ timeT = 0
    /\ timeResult = <<>>

DrawIdle ==
    /\ drawPc = "idle"
    /\ speedRange = [avgSpeed |-> Num(0), variance |-> Num(0)]
    /\ outlinePath = <<>>
    /\ segments = <<>>
    /\ ticks = <<>>

IconIdle ==
    /\ iconsRaster = <<>>
    /\ iconsWorld = <<>>

TailIdle ==
    /\ tailLength = 0
    /\ hourInput = <<>>
    /\ minuteInput = <<>>
    /\ secondInput = <<>>
    /\ tailTyped = None
    /\ tailEvents = 0

\* every operation specified on its own is idle, except the one named
ExtraIdleBut(op) ==
    /\ op = "affine" \/ AffineIdle
    /\ op = "zoom" \/ ZoomIdle
    /\ op = "helper" \/ HelperIdle
    /\ op = "file" \/ FileIdle
    /\ op = "helper" \/ ImageIdle
    /\ op = "time" \/ TimeIdle
    /\ op = "draw" \/ DrawIdle
    /\ op = "helper" \/ IconIdle
    /\ op = "tail" \/ TailIdle

ExtraIdle == ExtraIdleBut("none")

Init ==
    /\ pc = "call"
    /\ image \in Images
    /\ image0 = image
    /\ corners \in CornerSets
    /\ track \in {TrackOf(c) : c \in SeqsUpTo(TrackCoords, MaxTrackLen)}
    /\ bounds = extractBounds(image, corners, track)
    /\ includeHeader \in BOOLEAN
    /\ includeTrack \in BOOLEAN
    /\ canvas = NoCanvas
    /\ passes = 0
    /\ speeds = <<>>
    /\ CalibIdle
    /\ DashboardIdle
    /\ CliIdle
    /\ ExtraIdle

\* drawTrackOnMap, lines 105-121: the bounds exceed MAX, the image is scaled
\* down and drawTrackOnMap is called again with it (bounds' is line 105 of
\* that call).
Rescale ==
    /\ pc = "call"
    /\ tooBig
    /\ image' = scaleImage(image, NumDiv(Num(MAX), NumMax(mHeight, mWidth)))
    /\ bounds' = extractBounds(image', corners, track)
    /\ passes' = passes + 1
    /\ UNCHANGED <<pc, image0, corners, track, includeHeader, includeTrack,
                   canvas, speeds, calibVars, dashboardVars, cliVars, extraVars>>

\* drawTrackOnMap, lines 123-455: the bounds fit and the canvas is drawn.
\* Line 266 reads trackPoints[0].coordinates and throws on an empty track.
Render ==
    /\ pc = "call"
    /\ ~tooBig
    /\ speeds' = extractSpeed(track)
    /\ IF includeTrack /\ Len(track) = 0
       THEN /\ pc' = "threw"
            /\ canvas' = canvas
       ELSE /\ pc' = "returned"
            /\ canvas' = [width |-> mWidth.n,
                          height |-> IF includeHeader
                                     THEN mHeight.n + headerHeight
                                     ELSE mHeight.n]
    /\ UNCHANGED <<image, bounds, image0, corners, track, includeHeader,
                   includeTrack, passes, calibVars, dashboardVars, cliVars, extraVars>>

Next == Rescale \/ Render

Spec == Init /\ [][Next]_vars

-----------------------------------------------------------------------------
(* extractSpeed on its own *)

MaxSpeedTrackLen == 4   \* tracks given to extractSpeed have 0..MaxSpeedTrackLen points

SpeedCoords == { Pt(0, 0), Pt(3, 4) }
SpeedTimes == { 0, 10000, 20000 }
SpeedPoints == {[time |-> t, x |-> c.x, y |-> c.y] : t \in SpeedTimes, c \in SpeedCoords}

\* TrackPoint sequences are in acquisition order: timestamps do not decrease.
NonDecreasing(trackPoints) ==
    \A i \in 1..(Len(trackPoints) - 1) : trackPoints[i].time <= trackPoints[i + 1].time

InitSpeed ==
    /\ pc = "speed"
    /\ track \in {t \in SeqsUpTo(SpeedPoints, MaxSpeedTrackLen) : NonDecreasing(t)}
    /\ speeds = <<>>
    /\ corners = Quad(Pt(0, 0), Pt(0, 0), Pt(0, 0), Pt(0, 0))
    /\ RenderIdle
    /\ CalibIdle
    /\ DashboardIdle
    /\ CliIdle
    /\ ExtraIdle

\* const speeds = extractSpeed(trackPoints), mapdump.js line 155
ExtractSpeed ==
    /\ pc = "speed"
    /\ speeds' = extractSpeed(track)
    /\ pc' = "speedDone"
    /\ UNCHANGED <<corners, track, renderVars, calibVars, dashboardVars, cliVars, extraVars>>

NextSpeed == ExtractSpeed

SpecSpeed == InitSpeed /\ [][NextSpeed]_vars

-----------------------------------------------------------------------------
(* The calibration transforms on their own *)

CalibSpan == 2      \* corner coordinates are 0..CalibSpan units from the origin

CalibCoords == {Pt(x, -y) : x \in 0..CalibSpan, y \in 0..CalibSpan}

InitCalib ==
    /\ pc = "calib"
    /\ image \in Images
    /\ image0 = image
    /\ \E tr \in CalibCoords, br \in CalibCoords, bl \in CalibCoords :
           corners = Quad(Pt(0, 0), tr, br, bl)
    /\ track = <<>>
    /\ speeds = <<>>
    /\ bounds = [minX |-> Num(0), maxX |-> Num(0), minY |-> Num(0), maxY |-> Num(0)]
    /\ includeHeader = FALSE
    /\ includeTrack = FALSE
    /\ canvas = NoCanvas
    /\ passes = 0
    /\ CalibIdle
    /\ DashboardIdle
    /\ CliIdle
    /\ ExtraIdle

\* cornerCalTransform and cornerBackTransform are called with the image size
\* and the four corners; each returns a closure over its matrix3d.  Neither
\* has a failing path.
BuildTransforms ==
    /\ pc = "calib"
    /\ calTransform' = cornerCalTransform(image.width, image.height,
                       corners.top_left, corners.top_right,
                       corners.bottom_right, corners.bottom_left)
    /\ backTransform' = cornerBackTransform(image.width, image.height,
                           corners.top_left, corners.top_right,
                           corners.bottom_right, corners.bottom_left)
    /\ pc' = "calibDone"
    /\ UNCHANGED <<corners, track, speeds, renderVars, dashboardVars, cliVars, extraVars>>

NextCalib == BuildTransforms

SpecCalib == InitCalib /\ [][NextCalib]_vars

-----------------------------------------------------------------------------
(* The calibration string: dashboard preview and command line *)

\* A string is the sequence of its characters.
Digit == {"0", "1", "2", "3", "4", "5", "6", "7", "8", "9"}

DigitVal(c) ==
    CASE c = "0" -> 0 [] c = "1" -> 1 [] c = "2" -> 2 [] c = "3" -> 3
      [] c = "4" -> 4 [] c = "5" -> 5 [] c = "6" -> 6 [] c = "7" -> 7
      [] c = "8" -> 8 [] c = "9" -> 9

\* first position at or after i that holds no digit: the greedy \d*
RECURSIVE skipDigits(_, _)
skipDigits(s, i) ==
    IF i <= Len(s) /\ s[i] \in Digit THEN skipDigits(s, i + 1) ELSE i

\* [-]?\d+(\.\d+)? matched at position i: the position after the match, or 0.
\* What follows a number in the pattern is "," or the end, so the greedy
\* match is the only one that can succeed.
numberEnd(s, i) ==
    LET a == IF i <= Len(s) /\ s[i] = "-" THEN i + 1 ELSE i
        b == skipDigits(s, a)
    IN  IF b = a THEN 0
        ELSE IF b <= Len(s) /\ s[b] = "." /\ skipDigits(s, b + 1) > b + 1
             THEN skipDigits(s, b + 1)
             ELSE b

\* (,[-]?\d+(\.\d+)?){k}$ matched at position i
RECURSIVE groupsThenEnd(_, _, _)
groupsThenEnd(s, i, k) ==
    IF k = 0 THEN i = Len(s) + 1
    ELSE /\ i <= Len(s)
         /\ s[i] = ","
         /\ numberEnd(s, i + 1) # 0
         /\ groupsThenEnd(s, numberEnd(s, i + 1), k - 1)

\* s.match(/^[-]?\d+(\.\d+)?(,[-]?\d+(\.\d+)?){7}$/), as a truth value
isValidCalibString(s) ==
    /\ numberEnd(s, 1) # 0
    /\ groupsThenEnd(s, numberEnd(s, 1), 7)

\* s.split(",")
RECURSIVE split(_)
split(s) ==
    IF \A i \in 1..Len(s) : s[i] # "," THEN <<s>>
    ELSE LET i == CHOOSE j \in 1..Len(s) :
                      s[j] = "," /\ \A h \in 1..(j - 1) : s[h] # ","
         IN  <<SubSeq(s, 1, i - 1)>> \o split(SubSeq(s, i + 1, Len(s)))

RECURSIVE skipSpaces(_, _)
skipSpaces(s, i) ==
    IF i <= Len(s) /\ s[i] = " " THEN skipSpaces(s, i + 1) ELSE i

\* the number written by the digits s[i] .. s[j-1]
RECURSIVE digitsValue(_, _, _)
digitsValue(s, i, j) ==
    IF i >= j THEN 0 ELSE digitsValue(s, i, j - 1) * 10 + DigitVal(s[j - 1])

RECURSIVE Pow10(_)
Pow10(n) == IF n = 0 THEN 1 ELSE 10 * Pow10(n - 1)

\* Number.parseFloat: leading blanks are skipped, then the longest prefix
\* that is a decimal literal is converted, and anything after it is ignored;
\* NaN when there is no such prefix.  (Exponents and "Infinity" need letters
\* the strings of this model do not contain.)
parseFloat(s) ==
    LET a == skipSpaces(s, 1)
        neg == a <= Len(s) /\ s[a] = "-"
        b == IF a <= Len(s) /\ s[a] \in {"-", "+"} THEN a + 1 ELSE a
        c == skipDigits(s, b)
        hasDot == c <= Len(s) /\ s[c] = "."
        e == IF hasDot THEN skipDigits(s, c + 1) ELSE c
        nFrac == IF hasDot THEN e - (c + 1) ELSE 0
    IN  IF (c - b) + nFrac = 0 THEN NaN
        ELSE LET mag == IntDiv(digitsValue(s, b, c) * Pow10(nFrac)
                               + digitsValue(s, c + 1, e), Pow10(nFrac))
             IN  IF neg THEN NumSub(Num(0), mag) ELSE mag

\* calibString.split(",").map((x) => Number.parseFloat(x))
parseVals(s) == [i \in 1..Len(split(s)) |-> parseFloat(split(s)[i])]

\* vals[i] of JavaScript, for the array vals (0-based index i)
At(vals, i) == IF i + 1 <= Len(vals) THEN vals[i + 1] ELSE Undefined

\* the four {lat, lng} pairs built from vals[0] .. vals[7]
cornerPairs(vals) ==
    [i \in 1..4 |-> [lat |-> At(vals, 2 * (i - 1)), lng |-> At(vals, 2 * (i - 1) + 1)]]

RECURSIVE join(_)
join(parts) ==
    IF Len(parts) = 0 THEN <<>>
    ELSE IF Len(parts) = 1 THEN parts[1]
    ELSE parts[1] \o <<",">> \o join(Tail(parts))

\* number texts and other tokens
T1 == <<"1">>
T60 == <<"6", "0", ".", "2", "5">>
TNeg == <<"-", "2", "4", ".", "9">>
TDot == <<"1", ".">>
TWord == <<"x">>
TBlank == <<" ", "1">>

ValidStrings ==
    { join(<<T60, TNeg, T60, T1, T1, T1, T1, TNeg>>),
      join(<<T1, T1, T1, T1, T1, T1, T1, T1>>) }

InvalidStrings ==
    { <<>>,
      join(<<T60, TNeg, T60, T1, T1, T1, T1>>),
      join(<<T60, TNeg, T60, T1, T1, T1, T1, TNeg, T1>>),
      join(<<T60, TNeg, T60, TWord, T1, T1, T1, TNeg>>),
      join(<<T60, TNeg, T60, TDot, T1, T1, T1, TNeg>>),
      join(<<TBlank, TNeg, T60, T1, T1, T1, T1, TNeg>>),
      join(<<T60, TNeg, T60, T1, T1, T1, T1, TNeg, <<>> >>) }

CalibStrings == ValidStrings \cup InvalidStrings

\* what the change handler of #id_calibration_string_raw leaves on
\* #calibration_preview
openerShown(val, file, edit) == isValidCalibString(val) /\ (file \/ edit)

RenderIdleAll ==
    /\ pc = "idle"
    /\ corners = Quad(Pt(0, 0), Pt(0, 0), Pt(0, 0), Pt(0, 0))
    /\ track = <<>>
    /\ speeds = <<>>
    /\ RenderIdle
    /\ CalibIdle

\* The map form as the page shows it, and the command line before main runs.
InitCalibString ==
    /\ RenderIdleAll
    /\ ExtraIdle
    /\ calibrationStringRaw \in CalibStrings
    /\ hasFile \in BOOLEAN
    /\ editForm \in BOOLEAN
    /\ previewOpenerVisible = openerShown(calibrationStringRaw, hasFile, editForm)
    /\ viewerVisible = FALSE
    /\ calibString = Null
    /\ cornersLatLng = <<>>
    /\ previewLoading = FALSE
    /\ previewMapBounds = None
    /\ cliArg \in CalibStrings
    /\ cliState = "start"
    /\ cliCornersCoords = None
    /\ stdout = <<>>

renderRest == <<pc, corners, track, speeds, renderVars, calibVars>>

\* map_edit.js 719-730: the user edits the calibration field of the form
ChangeCalibString(val) ==
    /\ ~viewerVisible
    /\ ~helperVisible
    /\ calibrationStringRaw' = val
    /\ previewOpenerVisible' = openerShown(val, hasFile, editForm)
    /\ UNCHANGED <<hasFile, editForm, viewerVisible, calibString, cornersLatLng,
                   previewLoading, previewMapBounds, cliVars, renderRest, extraVars>>

\* map_edit.js 782-788: click on #calibration-preview-opener, which runs
\* loadCalibString (384-396) and loadMapImagePreview (260-286).
\* loadCalibString calls closePreview on an empty or invalid string and goes
\* on to split and parse it; loadMapImagePreview starts loading the image
\* when there is one and calls closePreview otherwise.
OpenPreview ==
    /\ ~viewerVisible
    /\ previewOpenerVisible
    /\ calibString' = calibrationStringRaw
    /\ cornersLatLng' = cornerPairs(parseVals(calibrationStringRaw))
    /\ previewLoading' = (previewLoading \/ hasFile \/ editForm)
    /\ viewerVisible' =
           IF hasFile \/ editForm
           THEN Len(calibrationStringRaw) # 0 /\ isValidCalibString(calibrationStringRaw)
           ELSE FALSE
    /\ UNCHANGED <<calibrationStringRaw, hasFile, editForm, previewOpenerVisible,
                   previewMapBounds, cliVars, renderRest, extraVars>>

\* map_edit.js 268-271 and 278-281: the image has loaded, displayPreviewMap
\* (423-454) overlays it on cornersLatLng
PreviewImageLoaded ==
    /\ previewLoading
    /\ previewLoading' = FALSE
    /\ previewMapBounds' = cornersLatLng
    /\ UNCHANGED <<calibrationStringRaw, hasFile, editForm, previewOpenerVisible,
                   viewerVisible, calibString, cornersLatLng, cliVars, renderRest, extraVars>>

\* map_edit.js 790 and 241-244: click on #back-from-preview-button
BackFromPreview ==
    /\ viewerVisible
    /\ viewerVisible' = FALSE
    /\ UNCHANGED <<calibrationStringRaw, hasFile, editForm, previewOpenerVisible,
                   calibString, cornersLatLng, previewLoading, previewMapBounds,
                   cliVars, renderRest, extraVars>>

\* cornersCoords of the command line, generate_map.js 17-37
cliParse(raw) ==
    LET arr == parseVals(raw)
    IN  [top_left     |-> [lat |-> At(arr, 0), lon |-> At(arr, 1)],
         top_right    |-> [lat |-> At(arr, 2), lon |-> At(arr, 3)],
         bottom_right |-> [lat |-> At(arr, 4), lon |-> At(arr, 5)],
         bottom_left  |-> [lat |-> At(arr, 6), lon |-> At(arr, 7)]]

\* generate_map.js 6-58: main parses the corners argument, reads the track,
\* prints it with console.log (line 49), which writes to standard output,
\* then reads the image and calls drawTrackOnMap with the parsed corners
CliMain ==
    /\ cliState = "start"
    /\ cliCornersCoords' = cliParse(cliArg)
    /\ stdout' = Append(stdout, "trackPoints")
    /\ cliState' = "drawTrackOnMap"
    /\ UNCHANGED <<cliArg, dashboardVars, renderRest, extraVars>>

\* generate_map.js 51-60: drawTrackOnMap has returned a canvas and its data
\* URI is written, or it has thrown and main ends with nothing more written
CliWriteDataURI ==
    /\ cliState = "drawTrackOnMap"
    /\ \E threw \in BOOLEAN :
           IF threw
           THEN /\ cliState' = "failed"
                /\ stdout' = stdout
           ELSE /\ cliState' = "done"
                /\ stdout' = Append(stdout, "dataURI")
    /\ UNCHANGED <<cliArg, cliCornersCoords, dashboardVars, renderRest, extraVars>>

NextCalibString ==
    \/ \E val \in CalibStrings : ChangeCalibString(val)
    \/ OpenPreview
    \/ PreviewImageLoaded
    \/ BackFromPreview
    \/ CliMain
    \/ CliWriteDataURI

SpecCalibString == InitCalibString /\ [][NextCalibString]_vars

-----------------------------------------------------------------------------
(* map_edit.js: the affine calibration from three control points *)

\* The numbers of deriveAffineTransform are written p + q * e for the
\* e = 1e-15 of line 556, with exact rationals p and q; the terms in e * e
\* (1e-30) are below the precision of a double and are dropped.  A divisor
\* has p # 0 as long as the control points are not collinear.
Eps(p, q) == [p |-> p, q |-> q]
EpsInt(i) == Eps(Num(i), Num(0))
EpsAdd(x, y) == Eps(RatAdd(x.p, y.p), RatAdd(x.q, y.q))
EpsSub(x, y) == Eps(RatSub(x.p, y.p), RatSub(x.q, y.q))
EpsMul(x, y) == Eps(RatMul(x.p, y.p), RatAdd(RatMul(x.p, y.q), RatMul(x.q, y.p)))
EpsDiv(x, y) ==
    LET inv == RatInv(y.p)
    IN  Eps(RatMul(x.p, inv),
            RatMul(RatSub(RatMul(x.q, y.p), RatMul(x.p, y.q)), RatMul(inv, inv)))

\* From this magnitude on, half the spacing of the doubles exceeds 1e-15 and
\* x + 1e-15 = x - 1e-15 = x.
Absorbing == 16

\* x += k * e (k = 1 or -1) on a whole number of pixels x
plusE(x, k) ==
    IF Abs(x.p.n) >= Absorbing * x.p.d THEN x ELSE Eps(x.p, RatAdd(x.q, Num(k)))

\* the mutant of solveAffineMatrix: c = t1 - r1 * a + s1 * b
solveAffineMatrix_sign(r1, s1, t1, r2, s2, t2, r3, s3, t3) ==
    LET a == EpsDiv(EpsSub(EpsMul(EpsSub(t2, t3), EpsSub(s1, s2)),
                           EpsMul(EpsSub(t1, t2), EpsSub(s2, s3))),
                    EpsSub(EpsMul(EpsSub(r2, r3), EpsSub(s1, s2)),
                           EpsMul(EpsSub(r1, r2), EpsSub(s2, s3))))
        b == EpsDiv(EpsSub(EpsMul(EpsSub(t2, t3), EpsSub(r1, r2)),
                           EpsMul(EpsSub(t1, t2), EpsSub(r2, r3))),
                    EpsSub(EpsMul(EpsSub(s2, s3), EpsSub(r1, r2)),
                           EpsMul(EpsSub(s1, s2), EpsSub(r2, r3))))
        c == EpsAdd(EpsSub(t1, EpsMul(r1, a)), EpsMul(s1, b))
    IN  <<a, b, c>>

solveAffineMatrix(r1, s1, t1, r2, s2, t2, r3, s3, t3) ==
    LET a == EpsDiv(EpsSub(EpsMul(EpsSub(t2, t3), EpsSub(s1, s2)),
                           EpsMul(EpsSub(t1, t2), EpsSub(s2, s3))),
                    EpsSub(EpsMul(EpsSub(r2, r3), EpsSub(s1, s2)),
                           EpsMul(EpsSub(r1, r2), EpsSub(s2, s3))))
        b == EpsDiv(EpsSub(EpsMul(EpsSub(t2, t3), EpsSub(r1, r2)),
                           EpsMul(EpsSub(t1, t2), EpsSub(r2, r3))),
                    EpsSub(EpsMul(EpsSub(s2, s3), EpsSub(r1, r2)),
                           EpsMul(EpsSub(s1, s2), EpsSub(r2, r3))))
        c == EpsSub(EpsSub(t1, EpsMul(r1, a)), EpsMul(s1, b))
    IN  <<a, b, c>>

\* lines 556-562: the control points as deriveAffineTransform leaves them
\* (it changes the xy of its arguments in place)
perturbed(a, b, c) ==
    << [a EXCEPT !.xy = [x |-> plusE(a.xy.x, -1), y |-> plusE(a.xy.y, 1)]],
       [b EXCEPT !.xy = [x |-> plusE(b.xy.x, 1), y |-> plusE(b.xy.y, -1)]],
       [c EXCEPT !.xy = [x |-> plusE(c.xy.x, 1), y |-> plusE(c.xy.y, 1)]] >>

\* lines 563-585: the six coefficients
deriveAffineTransform(a, b, c) ==
    LET pts == perturbed(a, b, c)
        x == solveAffineMatrix(pts[1].xy.x, pts[1].xy.y, pts[1].latLonMeters.x,
                               pts[2].xy.x, pts[2].xy.y, pts[2].latLonMeters.x,
                               pts[3].xy.x, pts[3].xy.y, pts[3].latLonMeters.x)
        y == solveAffineMatrix(pts[1].xy.x, pts[1].xy.y, pts[1].latLonMeters.y,
                               pts[2].xy.x, pts[2].xy.y, pts[2].latLonMeters.y,
                               pts[3].xy.x, pts[3].xy.y, pts[3].latLonMeters.y)
    IN  x \o y

\* lines 631-638 of mapXYtoLatLng: the metres the coefficients give a pixel
mapXYtoMeters(coeffs, xy) ==
    [x |-> EpsAdd(EpsAdd(EpsMul(xy.x, coeffs[1]), EpsMul(xy.y, coeffs[2])), coeffs[3]),
     y |-> EpsAdd(EpsAdd(EpsMul(xy.x, coeffs[4]), EpsMul(xy.y, coeffs[5])), coeffs[6])]

MaxOffset == 1      \* marker pixels are 0..MaxOffset and Absorbing..Absorbing+MaxOffset

PixelCoords == (0..MaxOffset) \cup {Absorbing, Absorbing + MaxOffset}

EpsPt(x, y) == [x |-> EpsInt(x), y |-> EpsInt(y)]

\* the projected metres of the three world markers
WorldTriples ==
    { <<EpsPt(0, 0), EpsPt(3, 1), EpsPt(1, -2)>>,
      <<EpsPt(5, 5), EpsPt(5, 7), EpsPt(-2, 5)>> }

noLine(p1, p2, p3) ==
    (p2.x.p.n - p1.x.p.n) * (p3.y.p.n - p1.y.p.n)
        # (p2.y.p.n - p1.y.p.n) * (p3.x.p.n - p1.x.p.n)

OtherIdle ==
    /\ RenderIdleAll
    /\ DashboardIdle
    /\ CliIdle

\* computeCalibString, lines 619-628: three raster markers, not on one line,
\* matched with three world markers
InitAffine ==
    /\ OtherIdle
    /\ ExtraIdleBut("affine")
    /\ \E x1 \in PixelCoords, y1 \in PixelCoords, x2 \in PixelCoords,
          y2 \in PixelCoords, x3 \in PixelCoords, y3 \in PixelCoords,
          w \in WorldTriples :
           /\ noLine(EpsPt(x1, y1), EpsPt(x2, y2), EpsPt(x3, y3))
           /\ calPts = << [latLonMeters |-> w[1], xy |-> EpsPt(x1, y1)],
                          [latLonMeters |-> w[2], xy |-> EpsPt(x2, y2)],
                          [latLonMeters |-> w[3], xy |-> EpsPt(x3, y3)] >>
    /\ calPts0 = calPts
    /\ xyToLatLngMetersCoeffs = <<>>

\* line 629: const xyToLatLngMetersCoeffs = deriveAffineTransform(...calPts)
DeriveAffineTransform ==
    /\ Len(xyToLatLngMetersCoeffs) = 0
    /\ Len(calPts) = 3
    /\ xyToLatLngMetersCoeffs' = deriveAffineTransform(calPts[1], calPts[2], calPts[3])
    /\ calPts' = perturbed(calPts[1], calPts[2], calPts[3])
    /\ UNCHANGED <<calPts0, affineRest>>

NextAffine == DeriveAffineTransform

SpecAffine == InitAffine /\ [][NextAffine]_vars

-----------------------------------------------------------------------------
(* SpheroidProjection.zoomForPixelSize (generate_map.js, lines 111-120) *)

\* line 115: for (let i = 0; i < 30; i++)
ZoomLevels == 30

\* lines 111-113: (2 * originShift) / (256 * 2 ** zoom).  Lengths are counted
\* in units of (2 * originShift) / (256 * 2 ** ZoomLevels), half the
\* resolution of the last zoom level scanned, so that every resolution is
\* a whole number and a pixel size below all of them can be written.
resolution(zoom) == Num(2 ^ (ZoomLevels - zoom))

\* lines 115-119 with >= in place of >
RECURSIVE zoomLoop_ge(_, _)
zoomLoop_ge(pixelSize, i) ==
    IF i >= ZoomLevels THEN Undefined
    ELSE IF NumLe(resolution(i), pixelSize) THEN Num(Max2(i - 1, 0))
    ELSE zoomLoop_ge(pixelSize, i + 1)

zoomForPixelSize_ge(pixelSize) == zoomLoop_ge(pixelSize, 0)

\* lines 115-119: the scan; the function ends without a return when no
\* resolution is below pixelSize
RECURSIVE zoomLoop(_, _)
zoomLoop(pixelSize, i) ==
    IF i >= ZoomLevels THEN Undefined
    ELSE IF NumGt(pixelSize, resolution(i)) THEN Num(Max2(i - 1, 0))
    ELSE zoomLoop(pixelSize, i + 1)

zoomForPixelSize(pixelSize) == zoomLoop(pixelSize, 0)

\* pixel sizes at, just below and just above every resolution
ZoomSlack == 1

ZoomSizes ==
    { Num(2 ^ j + off) : j \in 0..ZoomLevels, off \in -ZoomSlack..ZoomSlack }
        \cup {Num(0), Num(-1), NaN, PInf}

InitZoom ==
    /\ OtherIdle
    /\ ExtraIdleBut("zoom")
    /\ zoomPc = "call"
    /\ zoomPixelSize \in ZoomSizes
    /\ zoomResult = Undefined

ZoomForPixelSize ==
    /\ zoomPc = "call"
    /\ zoomResult' = zoomForPixelSize(zoomPixelSize)
    /\ zoomPc' = "returned"
    /\ UNCHANGED <<zoomPixelSize, zoomRest>>

NextZoom == ZoomForPixelSize

SpecZoom == InitZoom /\ [][NextZoom]_vars

-----------------------------------------------------------------------------
(* map_edit.js: placing the markers of the calibration helper *)

\* lines 364-378: what checkCalib leaves on #three-points-helper and on the
\* pair of buttons, for the numbers of raster and world markers
checkCalib_or(nRaster, nWorld) ==
    [threePointsHelper |-> nWorld >= 3 /\ nRaster >= 3 /\ ~(nWorld = 4 /\ nRaster = 4),
     btnToPreview |-> nWorld >= 3 \/ nRaster >= 3]

checkCalib(nRaster, nWorld) ==
    [threePointsHelper |-> nWorld >= 3 /\ nRaster >= 3 /\ ~(nWorld = 4 /\ nRaster = 4),
     btnToPreview |-> nWorld >= 3 /\ nRaster >= 3]

\* lines 652-657: const icons, the colours by index
icons == <<"blue", "red", "green", "orange">>

\* lines 338 and 352: icon: icons[markers.length], of the marker being made;
\* past the end of icons there is no colour
iconOf_first(markers) == icons[1]

iconOf(markers) ==
    IF Len(markers) < Len(icons) THEN icons[Len(markers) + 1] ELSE "undefined"

\* openings of the helper in one visit of the page
MaxOpenings == 2

RasterClicks == {Pt(0, 0), Pt(1, 0)}
WorldClicks == {Pt(0, 0), Pt(0, 1)}
HelperImages == {[width |-> 2, height |-> 1]}

\* The map form as the page shows it.  The template of the page is not part
\* of the sources: either button of the pair may be the one it shows.
InitHelper ==
    /\ RenderIdleAll
    /\ CliIdle
    /\ ExtraIdleBut("helper")
    /\ calibrationStringRaw = NoString
    /\ hasFile \in BOOLEAN
    /\ editForm \in BOOLEAN
    /\ previewOpenerVisible = FALSE
    /\ viewerVisible = FALSE
    /\ calibString = Null
    /\ cornersLatLng = <<>>
    /\ previewLoading = FALSE
    /\ previewMapBounds = None
    /\ helperVisible = FALSE
    /\ helperOpenings = 0
    /\ calibrationStep = 1
    /\ imageFile \in IF hasFile \/ editForm THEN HelperImages ELSE {NoImage}
    /\ rasterLoads = 0
    /\ rasterCalibMap = FALSE
    /\ worldCalibMap = FALSE
    /\ rasterMapImage = NoImage
    /\ markersRaster = <<>>
    /\ markersWorld = <<>>
    /\ iconsRaster = <<>>
    /\ iconsWorld = <<>>
    /\ btnToPreview \in BOOLEAN
    /\ threePointsHelper = FALSE
    /\ pdfLoading = FALSE
    /\ calibrationHelpVisible = (hasFile \/ editForm)

\* lines 732-735 and 216-226, with loadMapImage (lines 288-320): the helper
\* is shown and emptied, the world map is built, the raster map is dropped
\* and the image is loaded; without an image the helper is closed again
OpenCalibrationHelper ==
    /\ ~helperVisible
    /\ ~viewerVisible
    /\ helperOpenings < MaxOpenings
    /\ helperOpenings' = helperOpenings + 1
    /\ btnToPreview' = FALSE
    /\ markersRaster' = <<>>
    /\ markersWorld' = <<>>
    /\ iconsRaster' = <<>>
    /\ iconsWorld' = <<>>
    /\ cornersLatLng' = <<>>
    /\ calibString' = Null
    /\ worldCalibMap' = TRUE
    /\ rasterCalibMap' = FALSE
    /\ IF imageFile # NoImage
       THEN /\ rasterLoads' = rasterLoads + 1
            /\ helperVisible' = TRUE
       ELSE /\ rasterLoads' = rasterLoads
            /\ helperVisible' = FALSE
    /\ UNCHANGED <<calibrationStep, imageFile, rasterMapImage, threePointsHelper,
                   calibrationStringRaw, hasFile, editForm, previewOpenerVisible,
                   viewerVisible, previewLoading, previewMapBounds, markerRest>>

\* lines 302-307 and 398-421: the image has loaded and displayRasterMap
\* builds the raster map
DisplayRasterMap ==
    /\ rasterLoads > 0
    /\ rasterLoads' = rasterLoads - 1
    /\ rasterCalibMap' = TRUE
    /\ rasterMapImage' = imageFile
    /\ UNCHANGED <<helperVisible, helperOpenings, calibrationStep, imageFile,
                   worldCalibMap, markersRaster, markersWorld, btnToPreview,
                   threePointsHelper, dashboardVars, helperRest>>

\* lines 418-420 and 335-347: a click on the raster map, setRefPtsRaster
ClickRasterMap(xy) ==
    /\ helperVisible
    /\ calibrationStep = 1
    /\ rasterCalibMap
    /\ IF Len(markersRaster) < 4
       THEN /\ markersRaster' = Append(markersRaster, xy)
            /\ iconsRaster' = Append(iconsRaster, iconOf(markersRaster))
            /\ btnToPreview' =
                   checkCalib(Len(markersRaster) + 1, Len(markersWorld)).btnToPreview
            /\ threePointsHelper' =
                   checkCalib(Len(markersRaster) + 1, Len(markersWorld)).threePointsHelper
       ELSE UNCHANGED <<markersRaster, iconsRaster, btnToPreview, threePointsHelper>>
    /\ UNCHANGED <<helperVisible, helperOpenings, calibrationStep, imageFile,
                   rasterLoads, rasterCalibMap, worldCalibMap, rasterMapImage,
                   markersWorld, iconsWorld, dashboardVars, markerRest>>

\* lines 514-516 and 349-362: a click on the world map, setRefPtsWorld
ClickWorldMap(latlng) ==
    /\ helperVisible
    /\ calibrationStep = 1
    /\ worldCalibMap
    /\ IF Len(markersWorld) < 4
       THEN /\ markersWorld' = Append(markersWorld, latlng)
            /\ iconsWorld' = Append(iconsWorld, iconOf(markersWorld))
            /\ btnToPreview' =
                   checkCalib(Len(markersRaster), Len(markersWorld) + 1).btnToPreview
            /\ threePointsHelper' =
                   checkCalib(Len(markersRaster), Len(markersWorld) + 1).threePointsHelper
       ELSE UNCHANGED <<markersWorld, iconsWorld, btnToPreview, threePointsHelper>>
    /\ UNCHANGED <<helperVisible, helperOpenings, calibrationStep, imageFile,
                   rasterLoads, rasterCalibMap, worldCalibMap, rasterMapImage,
                   markersRaster, iconsRaster, dashboardVars, markerRest>>

\* lines 739-747: the raster markers are dropped; while the raster map is
\* still null, line 745 throws and the button is not touched
ResetRasterMarkers ==
    /\ helperVisible
    /\ calibrationStep = 1
    /\ markersRaster' = <<>>
    /\ iconsRaster' = <<>>
    /\ btnToPreview' = IF rasterCalibMap THEN FALSE ELSE btnToPreview
    /\ UNCHANGED <<helperVisible, helperOpenings, calibrationStep, imageFile,
                   rasterLoads, rasterCalibMap, worldCalibMap, rasterMapImage,
                   markersWorld, iconsWorld, threePointsHelper, dashboardVars,
                   markerRest>>

\* lines 749-757: the world markers are dropped
ResetWorldMarkers ==
    /\ helperVisible
    /\ calibrationStep = 1
    /\ markersWorld' = <<>>
    /\ iconsWorld' = <<>>
    /\ btnToPreview' = IF worldCalibMap THEN FALSE ELSE btnToPreview
    /\ UNCHANGED <<helperVisible, helperOpenings, calibrationStep, imageFile,
                   rasterLoads, rasterCalibMap, worldCalibMap, rasterMapImage,
                   markersRaster, iconsRaster, threePointsHelper, dashboardVars,
                   markerRest>>

\* lines 228-231 and 737: #close-calibration-button
CloseCalibrationHelper ==
    /\ helperVisible
    /\ helperVisible' = FALSE
    /\ UNCHANGED <<helperOpenings, calibrationStep, imageFile, rasterLoads,
                   rasterCalibMap, worldCalibMap, rasterMapImage, markersRaster,
                   markersWorld, btnToPreview, threePointsHelper, dashboardVars,
                   helperRest>>

NextHelper ==
    \/ OpenCalibrationHelper
    \/ DisplayRasterMap
    \/ \E xy \in RasterClicks : ClickRasterMap(xy)
    \/ \E latlng \in WorldClicks : ClickWorldMap(latlng)
    \/ ResetRasterMarkers
    \/ ResetWorldMarkers
    \/ CloseCalibrationHelper

SpecHelper == InitHelper /\ [][NextHelper]_vars

-----------------------------------------------------------------------------
(* map_edit.js: extractCornersCoordsFromFilename (lines 1-11) *)

\* s.split(c) for a separator c of one character
RECURSIVE splitBy(_, _)
splitBy(s, c) ==
    IF \A i \in 1..Len(s) : s[i] # c THEN <<s>>
    ELSE LET i == CHOOSE j \in 1..Len(s) :
                      s[j] = c /\ \A h \in 1..(j - 1) : s[h] # c
         IN  <<SubSeq(s, 1, i - 1)>> \o splitBy(SubSeq(s, i + 1, Len(s)), c)

\* line 2: gif|png|jpg|jpeg|webp
Extensions ==
    { <<"g", "i", "f">>, <<"p", "n", "g">>, <<"j", "p", "g">>,
      <<"j", "p", "e", "g">>, <<"w", "e", "b", "p">> }

\* line 2: (_[-]?\d+(\.\d+)?){k}_\.(gif|png|jpg|jpeg|webp)$ matched at
\* position i.  What follows a number in the pattern is "_", so the greedy
\* match of the number is the only one that can succeed.
RECURSIVE matchesFrom(_, _, _)
matchesFrom(s, i, k) ==
    IF k = 0
    THEN /\ i + 1 <= Len(s)
         /\ s[i] = "_"
         /\ s[i + 1] = "."
         /\ SubSeq(s, i + 2, Len(s)) \in Extensions
    ELSE /\ i <= Len(s)
         /\ s[i] = "_"
         /\ numberEnd(s, i + 1) # 0
         /\ matchesFrom(s, numberEnd(s, i + 1), k - 1)

\* lines 1-11 without coords.shift()
extractCornersCoordsFromFilename_noShift(filename) ==
    LET starts == { i \in 1..Len(filename) : matchesFrom(filename, i, 8) }
    IN  IF starts = {} THEN False
        ELSE LET first == CHOOSE i \in starts : \A j \in starts : i <= j
                 coords == splitBy(SubSeq(filename, first, Len(filename)), "_")
             IN  join(SubSeq(coords, 1, Len(coords) - 1))

\* lines 1-11: found[0] is the match that starts leftmost; its pieces
\* between "_" without the last (the extension) and the first (empty)
extractCornersCoordsFromFilename(filename) ==
    LET starts == { i \in 1..Len(filename) : matchesFrom(filename, i, 8) }
    IN  IF starts = {} THEN False
        ELSE LET first == CHOOSE i \in starts : \A j \in starts : i <= j
                 coords == splitBy(SubSeq(filename, first, Len(filename)), "_")
             IN  join(SubSeq(coords, 2, Len(coords) - 1))

\* File names: a prefix, then numbers each after a "_", then "." or "_."
\* and an extension.  One of the numbers may be replaced by "1.", which is
\* not a decimal number.
CountSlack == 1
CoordCounts == (8 - CountSlack)..(8 + CountSlack)
NumberTexts == <<T60, TNeg, T1, T60, TNeg, T1, T60, TNeg, T1, T60, TNeg, T1>>
Prefixes == { <<>>, <<"m">>, <<"9">> }
Endings == { <<".">>, <<"_", ".">> }
ExtensionTexts == Extensions \cup { <<"J", "P", "G">>, <<"p", "d", "f">> }
BadAt == {0, 1, 5}

numberTexts(n, bad) == [i \in 1..n |-> IF i = bad THEN TDot ELSE NumberTexts[i]]

RECURSIVE underscored(_)
underscored(texts) ==
    IF Len(texts) = 0 THEN <<>>
    ELSE <<"_">> \o texts[1] \o underscored(Tail(texts))

fileNameOf(parts) ==
    parts.prefix \o underscored(parts.numbers) \o parts.ending \o parts.extension

InitFile ==
    /\ OtherIdle
    /\ ExtraIdleBut("file")
    /\ filePc = "call"
    /\ \E p \in Prefixes, n \in CoordCounts, bad \in BadAt, en \in Endings,
          ex \in ExtensionTexts :
           fileParts = [prefix |-> p, numbers |-> numberTexts(n, bad),
                        ending |-> en, extension |-> ex]
    /\ fileName = fileNameOf(fileParts)
    /\ fileResult = False

ExtractCornersCoordsFromFilename ==
    /\ filePc = "call"
    /\ fileResult' = extractCornersCoordsFromFilename(fileName)
    /\ filePc' = "returned"
    /\ UNCHANGED <<fileParts, fileName, fileRest>>

NextFile == ExtractCornersCoordsFromFilename

SpecFile == InitFile /\ [][NextFile]_vars

-----------------------------------------------------------------------------
(* map_edit.js: step 2 of the calibration helper and its validation *)

DigitChar(i) == CHOOSE c \in Digit : DigitVal(c) = i

\* the decimal digits of a natural number
RECURSIVE digits(_)
digits(i) == IF i < 10 THEN <<DigitChar(i)>> ELSE digits(i \div 10) \o <<DigitChar(i % 10)>>

\* k more decimal digits of r / d (0 <= r < d): their value v and what remains
RECURSIVE scaleFloor(_, _, _)
scaleFloor(r, d, k) ==
    IF k = 0 THEN [v |-> 0, r |-> r]
    ELSE LET prev == scaleFloor(r, d, k - 1)
         IN  [v |-> prev.v * 10 + (prev.r * 10) \div d, r |-> (prev.r * 10) % d]

\* Number.prototype.toFixed(5): "NaN" and "Infinity" for the numbers that are
\* not finite, and otherwise the sign, the integer part, a dot and 5 decimals
\* of the nearest multiple of 0.00001 (the larger one when two are as near).
\* The magnitudes of this model stay below 1e21, where toFixed turns to the
\* exponent notation.
toFixed5(x) ==
    IF x.k = "nan" THEN <<"N", "a", "N">>
    ELSE IF x.k = "inf"
    THEN (IF x.n < 0 THEN <<"-">> ELSE <<>>) \o <<"I", "n", "f", "i", "n", "i", "t", "y">>
    ELSE LET a == Abs(x.n)
             s == scaleFloor(a % x.d, x.d, 5)
             t == (a \div x.d) * 100000 + s.v + (IF 2 * s.r >= x.d THEN 1 ELSE 0)
         IN  (IF x.n < 0 THEN <<"-">> ELSE <<>>)
                 \o digits(t \div 100000) \o <<".">>
                 \o [k \in 1..5 |-> DigitChar((t \div Pow10(5 - k)) % 10)]

\* lines 532-534
round5(x) == toFixed5(x)

\* lines 536-542: `${round5(c[i].lat)},${round5(c[i].lng)}` joined by ","
buildCalibString(c) ==
    join([i \in 1..Len(c) |-> round5(c[i].lat) \o <<",">> \o round5(c[i].lng)])

\* lines 108-119, latlngToMeters and metersToLatLng.  Positions on the world
\* map are carried as their projected metres, and a finite position in
\* metres stands for the latitude and longitude it is projected from.  Of a
\* northing that is not finite, the latitude is 90 or -90 (2 * atan(exp(y))
\* at infinity) or NaN; the longitude is a multiple of the easting.
metersToLatLng(mxy) ==
    [lat |-> IF mxy.y.k = "inf" THEN Num(90 * mxy.y.n) ELSE mxy.y,
     lng |-> mxy.x]

\* lines 591-617: four marker pairs, the projective calibration
cornersProjective(mr, mw, img) ==
    LET matrix3d == general2DProjection(mr[1].x, mr[1].y, mw[1].x, mw[1].y,
                                        mr[2].x, mr[2].y, mw[2].x, mw[2].y,
                                        mr[3].x, mr[3].y, mw[3].x, mw[3].y,
                                        mr[4].x, mr[4].y, mw[4].x, mw[4].y)
    IN  << metersToLatLng(project(matrix3d, 0, 0)),
           metersToLatLng(project(matrix3d, img.width, 0)),
           metersToLatLng(project(matrix3d, img.width, img.height)),
           metersToLatLng(project(matrix3d, 0, img.height)) >>

\* lines 618-648: the affine calibration from the first three pairs; of the
\* numbers p + q * e it computes, the part p is what 5 decimals show
cornersAffine(mr, mw, img) ==
    LET mapXYtoLatLng(coeffs, x, y) ==
            LET m == mapXYtoMeters(coeffs, EpsPt(x, y))
            IN  metersToLatLng([x |-> m.x.p, y |-> m.y.p])
        cornersOf(coeffs) ==
            << mapXYtoLatLng(coeffs, 0, 0),
               mapXYtoLatLng(coeffs, img.width, 0),
               mapXYtoLatLng(coeffs, img.width, img.height),
               mapXYtoLatLng(coeffs, 0, img.height) >>
        derived == deriveAffineTransform(
                       [latLonMeters |-> EpsPt(mw[1].x, mw[1].y), xy |-> EpsPt(mr[1].x, mr[1].y)],
                       [latLonMeters |-> EpsPt(mw[2].x, mw[2].y), xy |-> EpsPt(mr[2].x, mr[2].y)],
                       [latLonMeters |-> EpsPt(mw[3].x, mw[3].y), xy |-> EpsPt(mr[3].x, mr[3].y)])
    IN  CHOOSE c \in { cornersOf(coeffs) : coeffs \in {derived} } : TRUE

\* computeCorners taking the affine calibration whatever the number of markers
computeCorners_affineOnly(mr, mw, img, old) ==
    IF Len(mr) >= 3 /\ Len(mw) >= 3 THEN cornersAffine(mr, mw, img) ELSE old

\* lines 588-649: cornersLatLng as computeCalibString leaves it
computeCorners(mr, mw, img, old) ==
    IF Len(mr) = 4 /\ Len(mw) = 4 THEN cornersProjective(mr, mw, img)
    ELSE IF Len(mr) >= 3 /\ Len(mw) >= 3 THEN cornersAffine(mr, mw, img)
    ELSE old

\* Marker pairs as the helper holds them when the button to step 2 is
\* shown: 3 or 4 raster markers on the corners of the image or inside it, 3
\* or 4 world markers on the corners of one of the quadrilaterals of CornerSets.
RasterMarks == {Pt(0, 0), Pt(2, 0), Pt(2, 1), Pt(1, 1)}
WorldMarks ==
    { <<q.top_left, q.top_right, q.bottom_right, q.bottom_left>> : q \in CornerSets }

\* values typed into the calibration field
FieldEdits == { <<>>, join(<<T60, TNeg, T60, T1, T1, T1, T1, TNeg>>) }

\* The helper at step 1 with its markers placed.  deriveAffineTransform is
\* followed for raster markers that are not on one line: on one line its
\* divisors are multiples of e, outside the numbers p + q * e.
InitValidate ==
    /\ RenderIdleAll
    /\ CliIdle
    /\ ExtraIdleBut("helper")
    /\ calibrationStringRaw = NoString
    /\ hasFile \in BOOLEAN
    /\ editForm \in BOOLEAN
    /\ hasFile \/ editForm
    /\ previewOpenerVisible = FALSE
    /\ viewerVisible = FALSE
    /\ calibString = Null
    /\ cornersLatLng = <<>>
    /\ previewLoading = FALSE
    /\ previewMapBounds = None
    /\ helperVisible = TRUE
    /\ helperOpenings = 1
    /\ calibrationStep = 1
    /\ imageFile \in HelperImages
    /\ rasterLoads = 0
    /\ rasterCalibMap = TRUE
    /\ worldCalibMap = TRUE
    /\ rasterMapImage = imageFile
    /\ \E mr \in [1..4 -> RasterMarks], mw \in WorldMarks, nr \in 3..4, nw \in 3..4 :
           /\ (nr = 4 /\ nw = 4) \/ noLine(EpsPt(mr[1].x, mr[1].y),
                                             EpsPt(mr[2].x, mr[2].y),
                                             EpsPt(mr[3].x, mr[3].y))
           /\ markersRaster = SubSeq(mr, 1, nr)
           /\ markersWorld = SubSeq(mw, 1, nw)
    /\ iconsRaster = [i \in 1..Len(markersRaster) |-> icons[i]]
    /\ iconsWorld = [i \in 1..Len(markersWorld) |-> icons[i]]
    /\ btnToPreview = checkCalib(Len(markersRaster), Len(markersWorld)).btnToPreview
    /\ threePointsHelper = checkCalib(Len(markersRaster), Len(markersWorld)).threePointsHelper
    /\ pdfLoading = FALSE
    /\ calibrationHelpVisible = TRUE

\* lines 759-767: click on the button to step 2, computeCalibString
ToCalibrationStep2 ==
    /\ helperVisible
    /\ calibrationStep = 1
    /\ btnToPreview
    /\ cornersLatLng' = computeCorners(markersRaster, markersWorld, rasterMapImage,
                                       cornersLatLng)
    /\ calibString' = buildCalibString(cornersLatLng')
    /\ calibrationStep' = 2
    /\ UNCHANGED <<helperVisible, helperOpenings, imageFile, rasterLoads,
                   rasterCalibMap, worldCalibMap, rasterMapImage, markersRaster,
                   markersWorld, btnToPreview, threePointsHelper,
                   calibrationStringRaw, hasFile, editForm, previewOpenerVisible,
                   viewerVisible, previewLoading, previewMapBounds, helperRest>>

\* lines 769-775: #back-to-step-1-button
BackToStep1 ==
    /\ helperVisible
    /\ calibrationStep = 2
    /\ calibrationStep' = 1
    /\ UNCHANGED <<helperVisible, helperOpenings, imageFile, rasterLoads,
                   rasterCalibMap, worldCalibMap, rasterMapImage, markersRaster,
                   markersWorld, btnToPreview, threePointsHelper, dashboardVars,
                   helperRest>>

\* lines 777-780: #validate-calibration-button writes calibString into the
\* calibration field, triggers its change handler (lines 719-730) and closes
\* the helper
ValidateCalibration ==
    /\ helperVisible
    /\ calibrationStep = 2
    /\ calibString # Null
    /\ calibrationStringRaw' = calibString
    /\ previewOpenerVisible' = openerShown(calibString, hasFile, editForm)
    /\ helperVisible' = FALSE
    /\ UNCHANGED <<helperOpenings, calibrationStep, imageFile, rasterLoads,
                   rasterCalibMap, worldCalibMap, rasterMapImage, markersRaster,
                   markersWorld, btnToPreview, threePointsHelper, hasFile, editForm,
                   viewerVisible, calibString, cornersLatLng, previewLoading,
                   previewMapBounds, helperRest>>

\* files offered to #id_image: none (the choice is cleared), an image above
\* 20 MB, a PDF, an image whose name carries no coordinates, and one whose
\* name carries them
PlainName == <<"m", ".", "p", "n", "g">>
CoordsName ==
    fileNameOf([prefix |-> <<"m">>, numbers |-> numberTexts(8, 0),
                ending |-> <<"_", ".">>, extension |-> <<"p", "n", "g">>])
FileChoices ==
    { [kind |-> "none", name |-> <<>>], [kind |-> "tooBig", name |-> PlainName],
      [kind |-> "pdf", name |-> <<"m", ".", "p", "d", "f">>],
      [kind |-> "image", name |-> PlainName], [kind |-> "image", name |-> CoordsName] }

\* lines 677-717, the change handler of #id_image, with the change handler
\* of the calibration field (lines 719-730) it triggers for an image.  The
\* name field of the form, which nothing else reads, is left out.
imageChanged(file) ==
    IF file.kind = "image"
    THEN LET found == extractCornersCoordsFromFilename(file.name)
         IN  /\ hasFile' = TRUE
             /\ imageFile' \in HelperImages
             /\ calibrationStringRaw' =
                    IF found # False /\ Len(calibrationStringRaw) = 0
                    THEN found ELSE calibrationStringRaw
             /\ calibrationHelpVisible' = TRUE
             /\ previewOpenerVisible' = openerShown(calibrationStringRaw', TRUE, editForm)
             /\ pdfLoading' = FALSE
    ELSE IF file.kind = "pdf"
    THEN /\ hasFile' = TRUE
         /\ pdfLoading' = TRUE
         /\ UNCHANGED <<imageFile, calibrationStringRaw, calibrationHelpVisible,
                        previewOpenerVisible>>
    ELSE /\ hasFile' = FALSE
         /\ pdfLoading' = FALSE
         /\ imageFile' = IF editForm THEN imageFile ELSE NoImage
         /\ calibrationHelpVisible' = IF editForm THEN calibrationHelpVisible ELSE FALSE
         /\ previewOpenerVisible' = IF editForm THEN previewOpenerVisible ELSE FALSE
         /\ UNCHANGED calibrationStringRaw

formRest == <<helperVisible, helperOpenings, calibrationStep, rasterLoads,
              rasterCalibMap, worldCalibMap, rasterMapImage, markersRaster,
              markersWorld, btnToPreview, threePointsHelper, editForm, viewerVisible,
              calibString, cornersLatLng, previewLoading, previewMapBounds, imageRest>>

\* the user chooses a file, or clears the choice
ChangeImage(file) ==
    /\ ~helperVisible
    /\ ~viewerVisible
    /\ ~pdfLoading
    /\ imageChanged(file)
    /\ UNCHANGED formRest

\* lines 13-70, onPDF: the first page has been rendered to a JPEG, which is
\* put in place of the PDF with a change event of #id_image, or, above
\* 20 MB, the choice is cleared without any event
PdfRendered ==
    /\ pdfLoading
    /\ \/ imageChanged([kind |-> "image", name |-> <<"m", ".", "j", "p", "g">>])
       \/ /\ hasFile' = FALSE
          /\ pdfLoading' = FALSE
          /\ UNCHANGED <<imageFile, calibrationStringRaw, calibrationHelpVisible,
                         previewOpenerVisible>>
    /\ UNCHANGED formRest

NextValidate ==
    \/ ToCalibrationStep2
    \/ BackToStep1
    \/ ValidateCalibration
    \/ \E val \in FieldEdits : ChangeCalibString(val)
    \/ \E file \in FileChoices : ChangeImage(file)
    \/ PdfRendered

SpecValidate == InitValidate /\ [][NextValidate]_vars

-----------------------------------------------------------------------------
(* mapdump.js: printTime (lines 461-481) *)

\* two decimal digits, as toISOString writes hours, minutes and seconds
twoDigits(i) == <<DigitChar((i \div 10) % 10), DigitChar(i % 10)>>

\* lines 462-464: the date t / 1e3 whole seconds after the epoch, and the
\* characters 11..18 of its ISO text, the time of day hh:mm:ss
isoTimeOfDay(t) ==
    LET seconds == (t \div 1000) % 86400
    IN  twoDigits(seconds \div 3600) \o <<":">> \o twoDigits((seconds % 3600) \div 60)
            \o <<":">> \o twoDigits(seconds % 60)

\* Number.parseInt of a text of digits
parseInt(s) == digitsValue(s, 1, Len(s) + 1)

\* s.padStart(3, "0")
padStart3(s) == [i \in 1..(3 - Len(s)) |-> "0"] \o s

\* lines 461-481
printTime(t) ==
    LET iso == isoTimeOfDay(t)
        h == parseInt(SubSeq(iso, 1, 2))
        hasH == h > 0
        hPart == IF hasH THEN digits(h) \o <<"h">> ELSE <<>>
        m == parseInt(SubSeq(iso, 4, 5))
        hasM == hasH \/ m > 0
        mPart0 == IF hasM THEN digits(m) \o <<"m">> ELSE <<>>
        mPart == IF hasH THEN padStart3(mPart0) ELSE mPart0
        s == parseInt(SubSeq(iso, 7, 8))
        hasS == hasM \/ s > 0
        sPart0 == IF hasS THEN digits(s) \o <<"s">> ELSE <<>>
        sPart == IF hasM THEN padStart3(sPart0) ELSE sPart0
    IN  hPart \o mPart \o sPart

\* Elapsed times: whole days up to MaxDays, with some hours, minutes,
\* seconds and milliseconds more
MaxDays == 1
ElapsedTimes ==
    { ((((d * 24 + h) * 60 + m) * 60) + s) * 1000 + ms :
        d \in 0..MaxDays, h \in {0, 1, 23}, m \in {0, 3, 59}, s \in {0, 5, 59},
        ms \in {0, 999} }

InitTime ==
    /\ OtherIdle
    /\ ExtraIdleBut("time")
    /\ timePc = "call"
    /\ timeT \in ElapsedTimes
    /\ timeResult = <<>>

PrintTime ==
    /\ timePc = "call"
    /\ timeResult' = printTime(timeT)
    /\ timePc' = "returned"
    /\ UNCHANGED <<timeT, timeRest>>

NextTime == PrintTime

SpecTime == InitTime /\ [][NextTime]_vars

-----------------------------------------------------------------------------
(* event_edit.js: the tail length inputs (lines 588-663) *)

\* String(n) of an integer
numberText(n) == IF n < 0 THEN <<"-">> \o digits(-n) ELSE digits(n)

\* Number.parseInt of the text of an integer, or of the number 0 that
\* `val() || 0` puts in the place of an empty text
parseIntOr0(s) ==
    IF Len(s) = 0 THEN 0
    ELSE IF s[1] = "-" THEN -parseInt(SubSeq(s, 2, Len(s)))
    ELSE parseInt(s)

\* x % 60 for a number x >= 0 that need not be whole
mod60(x) == NumSub(x, NumMul(Num(60), Floor(NumDiv(x, Num(60)))))

\* lines 659-661 with the minutes not reduced modulo 60
decompose_noMod(t) ==
    [hours |-> numberText(Floor(NumDiv(Num(t), Num(3600))).n),
     minutes |-> numberText(Floor(NumDiv(Num(t), Num(60))).n),
     seconds |-> numberText(Floor(mod60(Num(t))).n)]

\* lines 659-661: the texts written into the three inputs
decompose(t) ==
    [hours |-> numberText(Floor(NumDiv(Num(t), Num(3600))).n),
     minutes |-> numberText(Floor(mod60(NumDiv(Num(t), Num(60)))).n),
     seconds |-> numberText(Floor(mod60(Num(t))).n)]

\* lines 650-658: the value the handler writes into #id_tail_length
tailLengthOf(hours, minutes, seconds) ==
    LET h == parseIntOr0(hours)
        m == parseIntOr0(minutes)
        s == parseIntOr0(seconds)
        v == 3600 * h + 60 * m + s
    IN  Max2(0, v)

MaxTailEvents == 3  \* input events in one visit of the page

\* tail lengths the form is loaded with, in seconds
InitialTails == {0, 59, 3600, 86399}

\* texts typed into an input: nothing, and integers below, in and above the
\* range of the minutes and seconds
TailTexts == {<<>>, numberText(-1), numberText(0), numberText(59), numberText(60),
              numberText(61), numberText(-3600)}

\* lines 588-640: the inputs are built from the value of #id_tail_length
InitTail ==
    /\ RenderIdleAll
    /\ DashboardIdle
    /\ CliIdle
    /\ ExtraIdleBut("tail")
    /\ tailLength \in InitialTails
    /\ hourInput = numberText(tailLength \div 3600)
    /\ minuteInput = numberText((tailLength \div 60) % 60)
    /\ secondInput = numberText(tailLength % 60)
    /\ tailTyped = None
    /\ tailEvents = 0

\* lines 643-662: the user has changed the text of one input and its input
\* event is handled
TailInput(name, text) ==
    /\ tailEvents < MaxTailEvents
    /\ tailEvents' = tailEvents + 1
    /\ tailTyped' = [hours |-> IF name = "hours" THEN text ELSE hourInput,
                     minutes |-> IF name = "minutes" THEN text ELSE minuteInput,
                     seconds |-> IF name = "seconds" THEN text ELSE secondInput]
    /\ tailLength' = tailLengthOf(tailTyped'.hours, tailTyped'.minutes, tailTyped'.seconds)
    /\ hourInput' = decompose(tailLength').hours
    /\ minuteInput' = decompose(tailLength').minutes
    /\ secondInput' = decompose(tailLength').seconds
    /\ UNCHANGED tailRest

NextTail == \E name \in {"hours", "minutes", "seconds"}, text \in TailTexts : TailInput(name, text)

SpecTail == InitTail /\ [][NextTail]_vars

-----------------------------------------------------------------------------
(* mapdump.js: the colours of the speeds (lines 155-208) *)

\* speeds.reduce((a, b) => a + b, 0), from the 1-based index i on
RECURSIVE sumFrom(_, _)
sumFrom(values, i) ==
    IF i > Len(values) THEN Num(0) ELSE NumAdd(values[i], sumFrom(values, i + 1))

\* lines 157-166.  minSpeed and maxSpeed are avgSpeed - standardDev and
\* avgSpeed + standardDev, and standardDev is a square root: the pair is
\* carried as avgSpeed and the variance sumVariance / speeds.length.  For an
\* empty series both stay null, which counts as 0 in the arithmetic of
\* getRGBForValue.
speedRangeOf(values) ==
    IF Len(values) = 0 THEN [avgSpeed |-> Num(0), variance |-> Num(0)]
    ELSE LET avgSpeed == NumDiv(sumFrom(values, 1), Num(Len(values)))
             squares == [i \in 1..Len(values) |->
                            NumMul(NumSub(values[i], avgSpeed), NumSub(values[i], avgSpeed))]
         IN  [avgSpeed |-> avgSpeed,
              variance |-> NumDiv(sumFrom(squares, 1), Num(Len(values)))]

\* A relative value: the number r, or 1/2 + s / 2 where s is the number of
\* sign sgn whose square is sq (the deviation from the mean in standard
\* deviations).
Rel(r) == [k |-> "rat", r |-> r, sgn |-> 0, sq |-> Num(0)]
RelDev(sgn, sq) == [k |-> "dev", r |-> Num(0), sgn |-> sgn, sq |-> sq]

\* s >= c / d for the number s of sign sgn and square sq, and the integers
\* c and d > 0
devGe(sgn, sq, c, d) ==
    IF c <= 0
    THEN sgn >= 0 \/ Ceil(NumMul(Num(d * d), sq)).n <= c * c
    ELSE sgn > 0 /\ Floor(NumMul(Num(d * d), sq)).n >= c * c

\* x >= n / d for a relative value x and the integers n and d > 0, d even
relGe(x, n, d) ==
    IF x.k = "rat" THEN NumLe(Fin(n, d), x.r)
    ELSE devGe(x.sgn, x.sq, n - d \div 2, d \div 2)

\* (value - minSpeed) / (maxSpeed - minSpeed), lines 194-195
ratio(value, range) ==
    LET dev == NumSub(value, range.avgSpeed)
    IN  IF ~IsFinite(range.avgSpeed) \/ ~IsFinite(range.variance) \/ IsNaN(dev)
        THEN Rel(NaN)
        ELSE IF ~IsFinite(dev) THEN Rel(dev)
        ELSE IF range.variance.n = 0 THEN Rel(IntDiv(dev.n, 0))
        ELSE RelDev(Sign(dev.n), NumDiv(NumMul(dev, dev), range.variance))

\* Math.min(Math.max(x, 0), 0.999), lines 194-197
clamp(x) ==
    IF x.k = "rat" /\ IsNaN(x.r) THEN x
    ELSE IF ~relGe(x, 0, 2) THEN Rel(Num(0))
    ELSE IF relGe(x, 999, 1000) THEN Rel(Fin(999, 1000))
    ELSE x

paletteLength == 1024   \* the bytes of getImageData(0, 0, 1, 256)

\* Math.floor(valueRelative * 256) for 0 <= valueRelative < 1
floor256(x) ==
    IF x.k = "rat" THEN Floor(NumMul(x.r, Num(256)))
    ELSE Num(CHOOSE i \in 0..255 : relGe(x, 2 * i, 512) /\ ~relGe(x, 2 * (i + 1), 512))

\* lines 180-191: getRGBForPercent, the index of the first of the three
\* palette bytes it reads
getRGBForPercent(valueRelative) ==
    LET scaled == NumMul(floor256(valueRelative), Num(4))
    IN  IF IsNaN(scaled) THEN NaN
        ELSE IF NumLt(Num(paletteLength - 4), scaled) THEN Num(paletteLength - 4)
        ELSE scaled

\* getRGBForValue without the replacement of NaN
getRGBForValue_keepNaN(value, range) ==
    [valueRelative |-> clamp(ratio(value, range)),
     paletteIndex |-> getRGBForPercent(clamp(ratio(value, range)))]

\* lines 193-202: getRGBForValue, with the relative value it passes on
getRGBForValue(value, range) ==
    IF ratio(value, range).k = "rat" /\ IsNaN(ratio(value, range).r)
    THEN [valueRelative |-> Rel(Num(0)), paletteIndex |-> getRGBForPercent(Rel(Num(0)))]
    ELSE [valueRelative |-> clamp(ratio(value, range)),
          paletteIndex |-> getRGBForPercent(clamp(ratio(value, range)))]

-----------------------------------------------------------------------------
(* mapdump.js: the track layers of drawTrackOnMap (lines 209-353) *)

\* Math.round
Round(x) == Floor(NumAdd(x, Fin(1, 2)))

\* line 153: Math.max(4, 4 / resolution).  The calibration of DrawCorners
\* has 4 m to the pixel, a resolution of 4 / 1.702, and 4 / resolution < 4.
weight == 4

\* lines 215-222 and 233-238: the track points as transform projects them
projected(img, cc, trackPoints) ==
    LET matrix3d == cornerCalTransform(img.width, img.height, cc.top_left, cc.top_right,
                                       cc.bottom_right, cc.bottom_left)
    IN  [i \in 1..Len(trackPoints) |-> transform(matrix3d, trackPoints[i])]

\* the pixel a point is drawn at: Math.round(pt.x - bounds.minX),
\* Math.round(pt.y - bounds.minY)
pixelOf(pt, b) == [x |-> Round(NumSub(pt.x, b.minX)).n, y |-> Round(NumSub(pt.y, b.minY)).n]

\* Math.sqrt(e) > w for integers e and w >= 0: the square root of a
\* negative number is NaN, which is not above anything
sqrtAbove(e, w) == e >= 0 /\ e > w * w

\* lines 239-246: the test that lets a point into the outline, with the
\* operator ** binding before the subtractions
farFromPrev(prevPt, pt) ==
    sqrtAbove(Round(prevPt.x).n - Round(pt.x).n * Round(pt.x).n
                  + (Round(prevPt.y).n - Round(pt.y).n * Round(pt.y).n), weight)

\* lines 231-253: the loop of drawOutline from the 1-based index i on;
\* prevPt is the point last added
RECURSIVE outlineLoop(_, _, _, _, _)
outlineLoop(pts, b, i, prevPt, path) ==
    IF i > Len(pts) THEN path
    ELSE IF farFromPrev(prevPt, pts[i])
    THEN outlineLoop(pts, b, i + 1, pts[i], Append(path, pixelOf(pts[i], b)))
    ELSE outlineLoop(pts, b, i + 1, prevPt, path)

\* lines 225-254: the points of the path stroked as the outline; the first
\* point finds prevPt null
drawOutline(pts, b) ==
    IF Len(pts) = 0 THEN <<>>
    ELSE outlineLoop(pts, b, 2, pts[1], <<pixelOf(pts[1], b)>>)

\* lines 276-282: d < 1, where distanceY is computed from the x coordinates
tooShort(pointStart, pointEnd) ==
    LET distanceX == NumSub(pointEnd.x, pointStart.x)
        distanceY == NumSub(pointEnd.x, pointStart.x)
    IN  NumLt(NumAdd(NumMul(distanceX, distanceX), NumMul(distanceY, distanceY)), Num(1))

\* lines 284-305: the segment stroked for the 0-based index j; startPoint
\* is the index of the track point pointStart was projected from
segmentOf(pts, b, values, range, j, startPoint) ==
    [from |-> pixelOf(pts[startPoint + 1], b),
     to |-> pixelOf(pts[j + 1], b),
     startPoint |-> startPoint,
     endPoint |-> j,
     gradientStartRGB |-> getRGBForValue(values[j], range),
     gradientEndRGB |-> getRGBForValue(values[j + 1], range)]

\* lines 268-308: the loop of drawColoredPath from the 0-based index j on
RECURSIVE pathLoop(_, _, _, _, _, _, _)
pathLoop(pts, b, values, range, j, startPoint, drawn) ==
    IF j >= Len(pts) THEN drawn
    ELSE IF tooShort(pts[startPoint + 1], pts[j + 1])
    THEN pathLoop(pts, b, values, range, j + 1, startPoint, drawn)
    ELSE pathLoop(pts, b, values, range, j + 1, j,
                  Append(drawn, segmentOf(pts, b, values, range, j, startPoint)))

\* lines 310-352: the loop of the ticks from the 0-based index j on; a tick
\* is the index of its point and whether its line is the thick one
RECURSIVE tickLoop(_, _, _, _, _)
tickLoop(trackPoints, j, prevT, count, drawn) ==
    IF j >= Len(trackPoints) - 1 THEN drawn
    ELSE IF trackPoints[j + 1].time >= prevT + 10000
    THEN tickLoop(trackPoints, j + 1, trackPoints[j + 1].time, count + 1,
                  Append(drawn, [point |-> j, thick |-> (count % 6 = 0)]))
    ELSE tickLoop(trackPoints, j + 1, prevT, count, drawn)

\* lines 310-353: no tick for an empty track or a first time of 0
drawTicks(trackPoints) ==
    IF Len(trackPoints) # 0 /\ trackPoints[1].time # 0
    THEN tickLoop(trackPoints, 1, trackPoints[1].time - 20000, 0, <<>>)
    ELSE <<>>

MaxDrawLen == 14    \* drawn tracks have 0..MaxDrawLen points

DrawImage == [width |-> 1, height |-> 1]

\* 4 m to the pixel, north up
DrawCorners == Quad(Pt(0, 0), Pt(4, 0), Pt(4, -4), Pt(0, -4))

\* Steps between two fixes: none, 0.5, 0.75, 1 and 5 pixels to the east, and
\* 2 pixels to the south.
DrawSteps == {Pt(0, 0), Pt(2, 0), Pt(3, 0), Pt(4, 0), Pt(20, 0), Pt(0, -8)}

\* first timestamps (the epoch, and later) and intervals of the fixes, in ms
DrawStarts == {0, 1000}
DrawIntervals == {0, 360, 18000}

\* the position after i steps that take a and b in turn
RECURSIVE walk(_, _, _)
walk(a, b, i) ==
    IF i = 0 THEN Pt(0, 0)
    ELSE LET prev == walk(a, b, i - 1)
             step == IF i % 2 = 1 THEN a ELSE b
         IN  Pt(prev.x + step.x, prev.y + step.y)

DrawTrack(n, a, b, t0, dt) ==
    [i \in 1..n |-> [time |-> t0 + (i - 1) * dt, x |-> walk(a, b, i - 1).x,
                     y |-> walk(a, b, i - 1).y]]

\* drawTrackOnMap at line 209, entering the branch of includeTrack: the
\* bounds fit, the speeds and their range are computed
InitDraw ==
    /\ pc = "track"
    /\ image = DrawImage
    /\ image0 = image
    /\ corners = DrawCorners
    /\ track \in {DrawTrack(n, a, b, t0, dt) : n \in 0..MaxDrawLen, a \in DrawSteps,
                       b \in DrawSteps, t0 \in DrawStarts, dt \in DrawIntervals}
    /\ bounds = extractBounds(image, corners, track)
    /\ includeHeader = FALSE
    /\ includeTrack = TRUE
    /\ canvas = NoCanvas
    /\ passes = 0
    /\ speeds = extractSpeed(track)
    /\ speedRange = speedRangeOf(speeds)
    /\ drawPc = "outline"
    /\ outlinePath = <<>>
    /\ segments = <<>>
    /\ ticks = <<>>
    /\ CalibIdle
    /\ DashboardIdle
    /\ CliIdle
    /\ ExtraIdleBut("draw")

\* lines 225-259
DrawOutline ==
    /\ drawPc = "outline"
    /\ \E pts \in {projected(image, corners, track)} :
           outlinePath' = drawOutline(pts, bounds)
    /\ drawPc' = "path"
    /\ UNCHANGED <<pc, corners, track, speeds, renderVars, speedRange, segments, ticks,
                   drawRest>>

\* lines 262-308; line 266 reads trackPoints[0].coordinates and throws on
\* an empty track
DrawColoredPath ==
    /\ drawPc = "path"
    /\ IF Len(track) = 0
       THEN /\ drawPc' = "threw"
            /\ segments' = segments
       ELSE /\ drawPc' = "ticks"
            /\ \E pts \in {projected(image, corners, track)} :
                   segments' = pathLoop(pts, bounds, speeds, speedRange, 1, 0, <<>>)
    /\ UNCHANGED <<pc, corners, track, speeds, renderVars, speedRange, outlinePath, ticks,
                   drawRest>>

\* lines 310-353
DrawTicks ==
    /\ drawPc = "ticks"
    /\ ticks' = drawTicks(track)
    /\ drawPc' = "done"
    /\ UNCHANGED <<pc, corners, track, speeds, renderVars, speedRange, outlinePath,
                   segments, drawRest>>

NextDraw == DrawOutline \/ DrawColoredPath \/ DrawTicks

SpecDraw == InitDraw /\ [][NextDraw]_vars

-----------------------------------------------------------------------------
(* Properties of the render (Spec) *)

maxDim == NumMax(mHeight, mWidth)

\* the bounds of the outermost call
firstBounds == extractBounds(image0, corners, track)
firstTooBig ==
    \/ NumGt(NumSub(firstBounds.maxY, firstBounds.minY), Num(MAX))
    \/ NumGt(NumSub(firstBounds.maxX, firstBounds.minX), Num(MAX))

\* C1: when the bounds of the first pass exceed 32767 in width or height,
\* the canvas drawTrackOnMap finally returns (header band included) is at
\* most 32767 wide and at most 32767 high.
C1_FinalCanvasWithinMax ==
    (pc = "returned" /\ firstTooBig) =>
        (canvas.width <= MAX /\ canvas.height <= MAX)

\* C2: every recursive call of drawTrackOnMap is made with a strictly smaller
\* maximum bounds dimension than the pass that made it, and that dimension is
\* a natural number, so the retry cannot go on for ever.
C2_RetryShrinks ==
    [][Rescale => (/\ NumLt(maxDim', maxDim)
                   /\ IsFinite(maxDim')
                   /\ maxDim'.d = 1
                   /\ maxDim'.n >= 0)]_vars

\* a second recursive call was made, after which the bounds fit
C2_Witness == passes = 2 /\ ~tooBig /\ image.width >= 1

\* C3 as stated: the downscale retry is performed at most once per render.
C3_AtMostOneRescale == passes <= 1

\* C3 as amended: the retry is performed at most twice; after one rescale the
\* bounds are at most 32768 in both dimensions (rounding the bounds outwards
\* can add one pixel), after a second one they are at most 32767.
C3_AtMostTwoRescales ==
    /\ passes <= 2
    /\ passes >= 1 => NumLe(maxDim, Num(MAX + 1))
    /\ passes >= 2 => NumLe(maxDim, Num(MAX))

\* one rescale has left bounds of exactly 32768 pixels
C3_Witness == passes = 1 /\ maxDim = Num(MAX + 1)

\* C7: the bounds extractBounds returns are integers, contain the rectangle
\* of the image and contain the projected position of every track point.
C7_BoundsContainImageAndTrack ==
    pc = "call" =>
        LET m == cornerCalTransform(image.width, image.height,
                     corners.top_left, corners.top_right,
                     corners.bottom_right, corners.bottom_left)
        IN  /\ \A f \in {"minX", "maxX", "minY", "maxY"} :
                   IsFinite(bounds[f]) /\ bounds[f].d = 1
            /\ NumLe(bounds.minX, Num(0))
            /\ NumLe(bounds.minY, Num(0))
            /\ NumLe(Num(image.width), bounds.maxX)
            /\ NumLe(Num(image.height), bounds.maxY)
            /\ \A i \in 1..Len(track) :
                   LET pt == transform(m, track[i])
                   IN  /\ NumLe(bounds.minX, pt.x) /\ NumLe(pt.x, bounds.maxX)
                       /\ NumLe(bounds.minY, pt.y) /\ NumLe(pt.y, bounds.maxY)

\* C13: for a track of 0 or 1 points drawTrackOnMap completes and returns a
\* canvas whatever the header and route flags are; no exception ends the call.
C13_ShortTrackStillRenders ==
    (pc # "call" /\ Len(track) < 2) => (pc = "returned" /\ canvas # NoCanvas)

-----------------------------------------------------------------------------
(* Properties of extractSpeed (SpecSpeed) *)

\* lines 8-9 and 24: the elapsed time of the window of the 0-based index i
windowElapsed(trackPoints, i) ==
    LET minIdx == Max2(i - SpeedWindow, 0)
        maxIdx == Min2(minIdx + SpeedWindow, Len(trackPoints) - 1)
    IN  trackPoints[maxIdx + 1].time - trackPoints[minIdx + 1].time

Stationary(trackPoints) ==
    \A i \in 1..Len(trackPoints) :
        trackPoints[i].x = trackPoints[1].x /\ trackPoints[i].y = trackPoints[1].y

StrictlyIncreasing(trackPoints) ==
    \A i \in 1..(Len(trackPoints) - 1) : trackPoints[i].time < trackPoints[i + 1].time

\* C4: every value of the series extractSpeed returns is finite and >= 0.
C4_SpeedsFiniteNonNegative ==
    pc = "speedDone" =>
        \A i \in 1..Len(speeds) : IsFinite(speeds[i]) /\ speeds[i].n >= 0

\* C5 as stated: a stationary track with strictly increasing timestamps and
\* at least one point yields only zeros.
C5_StationaryAllZero ==
    (pc = "speedDone" /\ Len(track) >= 1 /\ Stationary(track)
        /\ StrictlyIncreasing(track)) =>
        \A i \in 1..Len(speeds) : speeds[i] = Num(0)

\* C5 as amended: a stationary track with strictly increasing timestamps and
\* at least two points yields one zero per point.
C5_StationaryAllZeroFromTwo ==
    (pc = "speedDone" /\ Len(track) >= 2 /\ Stationary(track)
        /\ StrictlyIncreasing(track)) =>
        /\ Len(speeds) = Len(track)
        /\ \A i \in 1..Len(speeds) : speeds[i] = Num(0)

\* the speeds of a stationary track of three points were computed
C5_Witness ==
    /\ pc = "speedDone"
    /\ Len(track) = 3
    /\ Stationary(track)
    /\ StrictlyIncreasing(track)
    /\ speeds = <<Num(0), Num(0), Num(0)>>

\* C6: whenever the elapsed time of the window of point i is zero, the speed
\* emitted for point i is the speed emitted for point i - 1, or 1 for the
\* first point, whatever the summed distance of the window.
C6_ZeroElapsedKeepsPrevious ==
    pc = "speedDone" =>
        \A i \in 0..(Len(track) - 1) :
            windowElapsed(track, i) = 0 =>
                speeds[i + 1] = (IF i = 0 THEN Num(1) ELSE speeds[i])

-----------------------------------------------------------------------------
(* Properties of the calibration transforms (SpecCalib) *)

Collinear(a, b, c) == (b.x - a.x) * (c.y - a.y) - (b.y - a.y) * (c.x - a.x) = 0

\* some three of the four corners lie on one line
Singular(cc) ==
    \/ Collinear(cc.top_left, cc.top_right, cc.bottom_right)
    \/ Collinear(cc.top_left, cc.top_right, cc.bottom_left)
    \/ Collinear(cc.top_left, cc.bottom_right, cc.bottom_left)
    \/ Collinear(cc.top_right, cc.bottom_right, cc.bottom_left)

\* m applied to (sx, sy, 1) is a non-zero multiple of (tx, ty, 1)
MapsTo(m, sx, sy, tx, ty) ==
    LET v == multmv(m, <<sx, sy, 1>>)
    IN  v[3] # 0 /\ v[1] = tx * v[3] /\ v[2] = ty * v[3]

\* C8: for singular corners no transform is returned.
C8_SingularCalibrationRejected ==
    (pc = "calibDone" /\ Singular(corners)) =>
        (calTransform = NoMatrix /\ backTransform = NoMatrix)

\* C10: for corners no three of which are collinear, the matrix of
\* cornerCalTransform maps top_left, top_right, bottom_right, bottom_left to
\* the pixels (0,0), (w,0), (w,h), (0,h), and the matrix of
\* cornerBackTransform maps those pixels to the corners.
C10_CornersMapToImageCorners ==
    (pc = "calibDone" /\ ~Singular(corners)) =>
        LET w == image.width
            h == image.height
            tl == corners.top_left
            tr == corners.top_right
            br == corners.bottom_right
            bl == corners.bottom_left
        IN  /\ MapsTo(calTransform, tl.x, tl.y, 0, 0)
            /\ MapsTo(calTransform, tr.x, tr.y, w, 0)
            /\ MapsTo(calTransform, br.x, br.y, w, h)
            /\ MapsTo(calTransform, bl.x, bl.y, 0, h)
            /\ MapsTo(backTransform, 0, 0, tl.x, tl.y)
            /\ MapsTo(backTransform, w, 0, tr.x, tr.y)
            /\ MapsTo(backTransform, w, h, br.x, br.y)
            /\ MapsTo(backTransform, 0, h, bl.x, bl.y)

\* the transforms of a non-rectangular, non-parallelogram calibration on a
\* non-square image were built
C10_Witness ==
    /\ pc = "calibDone"
    /\ ~Singular(corners)
    /\ corners.top_right.x - corners.top_left.x
           # corners.bottom_right.x - corners.bottom_left.x
    /\ image.width # image.height
    /\ calTransform # NoMatrix
\* the corners, in their order, turn the same way all around
Convex(cc) ==
    LET turn(a, b, c) == Sign((b.x - a.x) * (c.y - a.y) - (b.y - a.y) * (c.x - a.x))
    IN  /\ turn(cc.top_left, cc.top_right, cc.bottom_right)
               = turn(cc.top_right, cc.bottom_right, cc.bottom_left)
        /\ turn(cc.top_right, cc.bottom_right, cc.bottom_left)
               = turn(cc.bottom_right, cc.bottom_left, cc.top_left)
        /\ turn(cc.bottom_right, cc.bottom_left, cc.top_left)
               = turn(cc.bottom_left, cc.top_left, cc.top_right)

\* pixel (px, py) taken to the map by cornerBackTransform and back by
\* cornerCalTransform
roundTrip(px, py) == transformNum(calTransform, backTransformAt(backTransform, Pt(px, py)))

IsIdentityMultiple(m) == m[1] # 0 /\ m = <<m[1], 0, 0, 0, m[1], 0, 0, 0, m[1]>>

RECURSIVE GCDOf(_, _)
GCDOf(m, i) == IF i = 0 THEN 0 ELSE GCD(Abs(m[i]), GCDOf(m, i - 1))

\* m divided by the greatest common divisor of its entries: the same
\* projective map, with small entries
primitive(m) ==
    LET g == GCDOf(m, 9)
    IN  IF g = 0 THEN m ELSE [i \in 1..9 |-> m[i] \div g]

\* C12 as stated: for corners no three of which are collinear, the product
\* of the two matrices is a non-zero multiple of the identity and every
\* pixel of the image, taken to the map and back, returns to itself.
C12_BackThenCalIsIdentity ==
    (pc = "calibDone" /\ ~Singular(corners)) =>
        /\ IsIdentityMultiple(multmm(primitive(calTransform), primitive(backTransform)))
        /\ \A px \in 0..image.width, py \in 0..image.height :
               roundTrip(px, py) = [x |-> Num(px), y |-> Num(py)]

\* C12 as amended: for corners no three of which are collinear, the product
\* of the two matrices is a non-zero multiple of the identity, and a pixel of
\* the image returns to itself whenever cornerBackTransform takes it to a
\* finite position, which it does for every pixel when the corners form a
\* convex quadrilateral.
C12_BackThenCalIsIdentityWhereFinite ==
    (pc = "calibDone" /\ ~Singular(corners)) =>
        /\ IsIdentityMultiple(multmm(primitive(calTransform), primitive(backTransform)))
        /\ \A px \in 0..image.width, py \in 0..image.height :
               LET there == backTransformAt(backTransform, Pt(px, py))
               IN  IF IsFinite(there.x) /\ IsFinite(there.y)
                   THEN transformNum(calTransform, there) = [x |-> Num(px), y |-> Num(py)]
                   ELSE ~Convex(corners)

\* the transforms of a convex calibration with a true perspective were built
\* for an image with pixels strictly inside it
C12_Witness ==
    /\ pc = "calibDone"
    /\ ~Singular(corners)
    /\ Convex(corners)
    /\ (calTransform[7] # 0 \/ calTransform[8] # 0)
    /\ image.width >= 2
    /\ image.height >= 2
    /\ roundTrip(1, 1) = [x |-> Num(1), y |-> Num(1)]


-----------------------------------------------------------------------------
(* Properties of the calibration string (SpecCalibString) *)

rejected(s) == Len(s) = 0 \/ ~isValidCalibString(s)

\* C9: a calibration string that is empty or fails the 8-number pattern is
\* never rendered: the preview has not parsed corners out of it, nor shown
\* them in displayPreviewMap, and the command line has not called
\* drawTrackOnMap with corners parsed from it.
C9_InvalidCalibStringNotRendered ==
    /\ (calibString # Null /\ rejected(calibString)) =>
           (Len(cornersLatLng) = 0 /\ Len(previewMapBounds) = 0)
    /\ ~(cliState = "drawTrackOnMap" /\ rejected(cliArg))

\* C15: a run of the CLI that ends normally has written to standard output
\* the data URI of the rendered image and nothing else.
C15_StdoutIsExactlyDataURI ==
    cliState = "done" => stdout = <<"dataURI">>

-----------------------------------------------------------------------------
(* Properties of the affine calibration (SpecAffine) *)

-----------------------------------------------------------------------------
(* Properties of zoomForPixelSize (SpecZoom) *)

\* the zoom levels scanned whose resolution is at most / at least the size
fineEnough(size) == { z \in 0..(ZoomLevels - 1) : NumLe(resolution(z), size) }
coarseEnough(size) == { z \in 0..(ZoomLevels - 1) : NumLe(size, resolution(z)) }

\* C14 as stated: zoomForPixelSize returns the smallest zoom level in 0..29
\* whose resolution is <= the pixel size.
C14_SmallestZoomFineEnough ==
    (zoomPc = "returned" /\ fineEnough(zoomPixelSize) # {}) =>
        /\ zoomResult.k = "fin"
        /\ zoomResult.n \in fineEnough(zoomPixelSize)
        /\ \A z \in fineEnough(zoomPixelSize) : zoomResult.n <= z

\* C14 amended: zoomForPixelSize returns 0 for a size above the resolution of
\* zoom 0, nothing (undefined) for a size that is not above the resolution of
\* zoom 29, and otherwise the largest zoom level whose resolution is >= size.
C14_LargestZoomCoarseEnough ==
    zoomPc = "returned" =>
        IF IsNaN(zoomPixelSize) \/ (ZoomLevels - 1) \in coarseEnough(zoomPixelSize)
        THEN zoomResult = Undefined
        ELSE IF coarseEnough(zoomPixelSize) = {}
        THEN zoomResult = Num(0)
        ELSE /\ zoomResult.k = "fin"
             /\ zoomResult.n \in coarseEnough(zoomPixelSize)
             /\ \A z \in coarseEnough(zoomPixelSize) : z <= zoomResult.n

\* a size strictly between two resolutions: the level returned is coarser
\* than the size
C14_Witness ==
    /\ zoomPc = "returned"
    /\ zoomResult = Num(3)
    /\ NumLt(zoomPixelSize, resolution(3))
    /\ NumGt(zoomPixelSize, resolution(4))

-----------------------------------------------------------------------------
(* Properties of the calibration helper (SpecHelper) *)

\* C16: in the calibration helper, once it has been opened, the button to
\* step 2 is the one shown exactly when at least 3 raster markers and at
\* least 3 world markers are placed.
C16_Step2ButtonIffThreePairs ==
    (helperVisible /\ helperOpenings >= 1) =>
        (btnToPreview <=> (Len(markersRaster) >= 3 /\ Len(markersWorld) >= 3))

\* in a helper opened for the second time, three pairs are placed and the
\* button is shown
C16_Witness ==
    /\ helperVisible
    /\ helperOpenings = 2
    /\ Len(markersRaster) = 3
    /\ Len(markersWorld) = 3
    /\ btnToPreview

-----------------------------------------------------------------------------
(* Properties of the validation of a calibration (SpecValidate) *)

\* the helper has just been closed by the validation of its calibration
validated == ~helperVisible /\ calibrationStep = 2 /\ calibrationStringRaw = calibString

\* C17: the value a validation writes into the calibration field is made of
\* exactly 8 comma-separated decimal numbers and matches the pattern.
C17_ValidatedStringMatchesPattern ==
    validated =>
        /\ Len(split(calibrationStringRaw)) = 8
        /\ isValidCalibString(calibrationStringRaw)

-----------------------------------------------------------------------------
(* Properties of extractCornersCoordsFromFilename (SpecFile) *)

\* the last 8 of the texts, when all of them are decimal numbers
lastEight(texts) == SubSeq(texts, Len(texts) - 7, Len(texts))
eightNumbers(texts) ==
    /\ Len(texts) >= 8
    /\ \A i \in 1..8 : numberEnd(lastEight(texts)[i], 1) = Len(lastEight(texts)[i]) + 1

\* the numbers the name ends in, separated by "_": those after a "_", and
\* before them the prefix when it is a number
separated(parts) ==
    IF parts.prefix = <<"9">> THEN <<parts.prefix>> \o parts.numbers ELSE parts.numbers

\* C18 as stated: for a file name that ends in 8 underscore-separated
\* decimal numbers directly followed by "." and one of the extensions, the
\* function returns the 8 numbers joined by commas, and false for any other.
C18_NumbersThenDotExtension ==
    filePc = "returned" =>
        IF /\ eightNumbers(separated(fileParts))
           /\ fileParts.ending = <<".">>
           /\ fileParts.extension \in Extensions
        THEN fileResult = join(lastEight(separated(fileParts)))
        ELSE fileResult = False

\* C18 amended: for a file name that ends in 8 decimal numbers, each after a
\* "_", followed by "_." and one of the extensions, the function returns the
\* 8 numbers joined by commas, a valid calibration string; false for any
\* other name.
C18_NumbersThenUnderscoreDotExtension ==
    filePc = "returned" =>
        IF /\ eightNumbers(fileParts.numbers)
           /\ fileParts.ending = <<"_", ".">>
           /\ fileParts.extension \in Extensions
        THEN /\ fileResult = join(lastEight(fileParts.numbers))
             /\ isValidCalibString(fileResult)
        ELSE fileResult = False

\* a name with 9 numbers: the last 8 are returned
C18_Witness ==
    /\ filePc = "returned"
    /\ Len(fileParts.numbers) = 9
    /\ fileResult # False
    /\ Len(split(fileResult)) = 8

\* what the change handler of the calibration field leaves on the opener of
\* the preview, in the state after a step
openerFollowsField ==
    previewOpenerVisible' = (isValidCalibString(calibrationStringRaw') /\ (hasFile' \/ editForm'))

\* the steps in which the calibration field gets a change event
changeEvent ==
    \/ \E val \in FieldEdits : ChangeCalibString(val)
    \/ ValidateCalibration
    \/ hasFile' /\ ~pdfLoading' /\ (PdfRendered \/ \E file \in FileChoices : ChangeImage(file))

\* C19: after every change event of the calibration field the opener of the
\* preview is visible exactly when the value matches the pattern and an
\* image is selected or the form is an edit form; it is hidden after an
\* image is chosen while the field stays empty, and visible after a
\* calibration of the helper has been validated.
C19_OpenerFollowsChangeEvents ==
    [][/\ changeEvent => openerFollowsField
       /\ (changeEvent /\ ~ValidateCalibration /\ Len(calibrationStringRaw') = 0)
              => ~previewOpenerVisible'
       /\ ValidateCalibration => previewOpenerVisible']_vars

\* every change event leaves the opener as the handler of the field sets it
openerFollowsFieldAlways == [][changeEvent => openerFollowsField]_vars

-----------------------------------------------------------------------------
(* Properties of printTime (SpecTime) *)

\* the hours, minutes and seconds of t written compactly: no unit above the
\* highest one that is not zero, two digits for every unit below it
compact(t) ==
    LET hours == t \div 3600000
        minutes == (t \div 60000) % 60
        seconds == (t \div 1000) % 60
    IN  IF hours > 0
        THEN digits(hours) \o <<"h">> \o twoDigits(minutes) \o <<"m">>
                 \o twoDigits(seconds) \o <<"s">>
        ELSE IF minutes > 0
        THEN digits(minutes) \o <<"m">> \o twoDigits(seconds) \o <<"s">>
        ELSE digits(seconds) \o <<"s">>

\* C20: for an elapsed time of a second or more, printTime returns its
\* hours, minutes and seconds written compactly.
C20_PrintTimeIsCompact ==
    (timePc = "returned" /\ timeT >= 1000) => timeResult = compact(timeT)

-----------------------------------------------------------------------------
(* Properties of the window of extractSpeed (SpecSpeed) *)

\* the summed distance of the consecutive pairs from the 0-based index s up
\* to the 0-based index e
RECURSIVE pairsDistance(_, _, _)
pairsDistance(trackPoints, s, e) ==
    IF s >= e THEN 0
    ELSE distance(trackPoints[s + 1], trackPoints[s + 2]) + pairsDistance(trackPoints, s + 1, e)

\* the speed of point i when distance and elapsed time both run from
\* s = max(i - 10, 0) to e = min(s + 10, n - 1)
windowSpeed(trackPoints, i) ==
    LET minIdx == Max2(i - SpeedWindow, 0)
        maxIdx == Min2(minIdx + SpeedWindow, Len(trackPoints) - 1)
    IN  NumMul(IntDiv(pairsDistance(trackPoints, minIdx, maxIdx),
                      windowElapsed(trackPoints, i)), Num(3600))

\* C21: for track point i the distance extractSpeed divides is the sum over
\* all consecutive pairs from index s = max(i - 10, 0) up to index
\* e = min(s + 10, n - 1), the points the elapsed time[e] - time[s] covers.
C21_DistanceCoversWindow ==
    pc = "speedDone" =>
        \A i \in 0..(Len(track) - 1) :
            speeds[i + 1] = (IF IsNaN(windowSpeed(track, i))
                             THEN (IF i = 0 THEN Num(1) ELSE speeds[i])
                             ELSE windowSpeed(track, i))

-----------------------------------------------------------------------------
(* Properties of the markers of the calibration helper (SpecHelper) *)

\* C27: in the open helper the three-points warning is visible if and only
\* if at least 3 raster markers and at least 3 world markers are placed and
\* not both maps have 4 markers.
C27_WarningIffThreeNotFour ==
    (helperVisible /\ helperOpenings >= 1) =>
        (threePointsHelper <=>
            /\ Len(markersRaster) >= 3
            /\ Len(markersWorld) >= 3
            /\ ~(Len(markersRaster) = 4 /\ Len(markersWorld) = 4))

\* each map holds 0 to 4 markers, and the i-th marker of each map has the
\* i-th icon
pairedUp ==
    /\ Len(markersRaster) \in 0..4
    /\ Len(markersWorld) \in 0..4
    /\ Len(iconsRaster) = Len(markersRaster)
    /\ Len(iconsWorld) = Len(markersWorld)
    /\ \A i \in 1..Len(iconsRaster) : iconsRaster[i] = icons[i]
    /\ \A i \in 1..Len(iconsWorld) : iconsWorld[i] = icons[i]

\* C28: after every click, reset and opening each map holds 0 to 4 markers
\* and its i-th marker has the i-th icon colour, and a click on a map that
\* holds 4 markers changes nothing.
C28_MarkersPairUpByIndex ==
    [][/\ pairedUp'
       /\ ((\E xy \in RasterClicks : ClickRasterMap(xy)) /\ Len(markersRaster) = 4)
              => UNCHANGED vars
       /\ ((\E latlng \in WorldClicks : ClickWorldMap(latlng)) /\ Len(markersWorld) = 4)
              => UNCHANGED vars]_vars

\* in the second opening of the helper both maps hold their 4 markers
C28_Witness ==
    /\ helperVisible
    /\ helperOpenings = 2
    /\ Len(markersRaster) = 4
    /\ Len(markersWorld) = 4
    /\ iconsRaster = icons
    /\ iconsWorld = icons

-----------------------------------------------------------------------------
(* Properties of computeCalibString (SpecValidate) *)

\* the helper shows step 2: computeCalibString has run on the markers placed
atStep2 == helperVisible /\ calibrationStep = 2

firstThree(markers) == SubSeq(markers, 1, 3)

\* C26 as stated: the projective solve exactly for 4 and 4 markers, and
\* otherwise the affine solve of exactly 3 raster and 3 world markers, so
\* that every marker placed takes part; four corners and a calibration
\* string come out of it.
C26_EveryMarkerTakesPart ==
    atStep2 =>
        /\ IF Len(markersRaster) = 4 /\ Len(markersWorld) = 4
           THEN cornersLatLng = cornersProjective(markersRaster, markersWorld, rasterMapImage)
           ELSE /\ Len(markersRaster) = 3
                /\ Len(markersWorld) = 3
                /\ cornersLatLng = cornersAffine(markersRaster, markersWorld, rasterMapImage)
        /\ Len(cornersLatLng) = 4
        /\ calibString = buildCalibString(cornersLatLng)

\* C26 as amended: the projective solve exactly for 4 and 4 markers, and
\* otherwise the affine solve of the first 3 raster and the first 3 world
\* markers, whatever the fourth marker of one map is; four corners and a
\* calibration string come out of it.
C26_FirstThreePairsOtherwise ==
    atStep2 =>
        /\ IF Len(markersRaster) = 4 /\ Len(markersWorld) = 4
           THEN cornersLatLng = cornersProjective(markersRaster, markersWorld, rasterMapImage)
           ELSE /\ Len(markersRaster) >= 3
                /\ Len(markersWorld) >= 3
                /\ cornersLatLng = cornersAffine(firstThree(markersRaster),
                                                 firstThree(markersWorld), rasterMapImage)
        /\ Len(cornersLatLng) = 4
        /\ calibString = buildCalibString(cornersLatLng)

\* step 2 was reached with 4 raster markers and 3 world markers, and the
\* calibration string is one of 8 numbers
C26_Witness ==
    /\ atStep2
    /\ Len(markersRaster) = 4
    /\ Len(markersWorld) = 3
    /\ Len(cornersLatLng) = 4
    /\ isValidCalibString(calibString)

-----------------------------------------------------------------------------
(* Properties of the tail length inputs (SpecTail) *)

\* C30: after every input event the hidden field is max(0, 3600 h + 60 m + s)
\* of the integers h, m, s found in the inputs (0 for an empty input), and
\* the inputs hold the decomposition of the field with minutes and seconds
\* in 0..59.
C30_TailLengthNormalised ==
    tailEvents >= 1 =>
        LET h == parseIntOr0(hourInput)
            m == parseIntOr0(minuteInput)
            s == parseIntOr0(secondInput)
        IN  /\ tailLength = Max2(0, 3600 * parseIntOr0(tailTyped.hours)
                                    + 60 * parseIntOr0(tailTyped.minutes)
                                    + parseIntOr0(tailTyped.seconds))
            /\ h >= 0
            /\ m \in 0..59
            /\ s \in 0..59
            /\ 3600 * h + 60 * m + s = tailLength

\* 61 was typed for the minutes and 61 for the seconds of a tail of one hour
C30_Witness ==
    /\ tailEvents = 2
    /\ tailTyped.seconds = numberText(61)
    /\ tailLength = 2 * 3600 + 2 * 60 + 1
    /\ hourInput = numberText(2)
    /\ minuteInput = numberText(2)
    /\ secondInput = numberText(1)

-----------------------------------------------------------------------------
(* Properties of the track layers (SpecDraw) *)

\* the track points in pixels
drawnPts == projected(image, corners, track)

pathDrawn == drawPc \in {"ticks", "done"}

\* the length in pixels from a to b is below 1, over both x and y
shorterThan1(a, b) ==
    LET dx == NumSub(b.x, a.x)
        dy == NumSub(b.y, a.y)
    IN  NumLt(NumAdd(NumMul(dx, dx), NumMul(dy, dy)), Num(1))

\* the pairs <<start, end>> of 0-based point indices of the segments drawn
\* when exactly the segments shorter than 1 pixel are skipped
RECURSIVE pairsFrom(_, _, _)
pairsFrom(pts, j, startPoint) ==
    IF j >= Len(pts) THEN <<>>
    ELSE IF shorterThan1(pts[startPoint + 1], pts[j + 1])
    THEN pairsFrom(pts, j + 1, startPoint)
    ELSE <<(<<startPoint, j>>)>> \o pairsFrom(pts, j + 1, j)

\* C22: a segment from the current start point to the next track point is
\* skipped if and only if its length in pixels, over x and y, is below 1.
C22_SkippedIffShorterThan1 ==
    pathDrawn =>
        [k \in 1..Len(segments) |-> <<segments[k].startPoint, segments[k].endPoint>>]
            = pairsFrom(drawnPts, 1, 0)

\* the last 0-based index below j among the points of the ticks, or -1
lastTickBefore(j) ==
    LET earlier == {ticks[k].point : k \in 1..Len(ticks)} \cap 0..(j - 1)
    IN  IF earlier = {} THEN -1 ELSE CHOOSE i \in earlier : \A o \in earlier : o <= i

\* C23: for a track of at least 3 points a tick is drawn at an interior
\* point exactly when its time is at least 10 s after the time of the point
\* ticked before it (the first interior point always has its tick); the
\* ticks follow the track, and the k-th tick, from 0, is the thick one if
\* and only if k mod 6 = 0.  Whatever the first timestamp is.
C23_TicksEveryTenSeconds ==
    (drawPc = "done" /\ Len(track) >= 3) =>
        /\ \A k \in 1..Len(ticks) :
               /\ ticks[k].point \in 1..(Len(track) - 2)
               /\ k > 1 => ticks[k - 1].point < ticks[k].point
               /\ k > 1 => track[ticks[k].point + 1].time
                                >= track[ticks[k - 1].point + 1].time + 10000
               /\ ticks[k].thick <=> ((k - 1) % 6 = 0)
        /\ \A j \in 1..(Len(track) - 2) :
               (\E k \in 1..Len(ticks) : ticks[k].point = j) <=>
                   \/ j = 1
                   \/ /\ lastTickBefore(j) >= 0
                      /\ track[j + 1].time >= track[lastTickBefore(j) + 1].time + 10000

\* x <= n / d for a relative value x and the integers n and d > 0, d even
relLe(x, n, d) ==
    IF x.k = "rat" THEN NumLe(x.r, Fin(n, d))
    ELSE devGe(-x.sgn, x.sq, -(n - d \div 2), d \div 2)

\* a colour read from bytes of the palette, for a relative value in [0, 0.999]
definedColour(rgb) ==
    /\ relGe(rgb.valueRelative, 0, 2)
    /\ relLe(rgb.valueRelative, 999, 1000)
    /\ IsFinite(rgb.paletteIndex)
    /\ rgb.paletteIndex.d = 1
    /\ rgb.paletteIndex.n % 4 = 0
    /\ rgb.paletteIndex.n \in 0..(paletteLength - 4)

\* C24: for every speed given to getRGBForValue the relative value is in
\* [0, 0.999] and the palette index is a multiple of 4 from 0 to
\* palette.length - 4.
C24_ColoursAreDefined ==
    pathDrawn =>
        \A k \in 1..Len(segments) :
            /\ definedColour(segments[k].gradientStartRGB)
            /\ definedColour(segments[k].gradientEndRGB)

\* a segment was coloured from a speed strictly inside the range, another
\* from a speed at its upper end
C24_Witness ==
    /\ pathDrawn
    /\ \E k \in 1..Len(segments) :
           /\ segments[k].gradientEndRGB.valueRelative.k = "dev"
           /\ segments[k].gradientEndRGB.paletteIndex.n \in 4..(paletteLength - 8)
    /\ \E k \in 1..Len(segments) :
           segments[k].gradientEndRGB.paletteIndex.n = paletteLength - 4

\* the rounded pixel distance from a to b is above the line weight
beyondWeight(a, b) ==
    LET dx == Round(a.x).n - Round(b.x).n
        dy == Round(a.y).n - Round(b.y).n
    IN  dx * dx + dy * dy > weight * weight

\* the outline path of the first point and of every later point beyond the
\* line weight from the point added last
RECURSIVE outlineFrom(_, _, _, _)
outlineFrom(pts, b, i, last) ==
    IF i > Len(pts) THEN <<>>
    ELSE IF beyondWeight(pts[last], pts[i])
    THEN <<pixelOf(pts[i], b)>> \o outlineFrom(pts, b, i + 1, i)
    ELSE outlineFrom(pts, b, i + 1, last)

\* C25: the outline path holds the first track point and every later one
\* whose rounded pixel distance from the point added last is above the line
\* weight.
C25_OutlineFollowsTrack ==
    (drawPc # "outline" /\ Len(track) >= 1) =>
        outlinePath = <<pixelOf(drawnPts[1], bounds)>> \o outlineFrom(drawnPts, bounds, 2, 1)

\* C29: every segment drawn starts where the one before it ended, or at the
\* first track point, and its two colours are those of the speeds of the
\* track points it starts and ends at.
C29_ConnectedAndColoured ==
    pathDrawn =>
        \A k \in 1..Len(segments) :
            /\ segments[k].startPoint = (IF k = 1 THEN 0 ELSE segments[k - 1].endPoint)
            /\ segments[k].from = pixelOf(drawnPts[segments[k].startPoint + 1], bounds)
            /\ segments[k].to = pixelOf(drawnPts[segments[k].endPoint + 1], bounds)
            /\ segments[k].gradientStartRGB.paletteIndex =
                   getRGBForValue(speeds[segments[k].startPoint + 1], speedRange).paletteIndex
            /\ segments[k].gradientEndRGB.paletteIndex =
                   getRGBForValue(speeds[segments[k].endPoint + 1], speedRange).paletteIndex

=============================================================================
